---------------------------- MODULE Spec2Model ----------------------------
(***************************************************************************)
(* A model of the MCOS subsystem decoder of readmat:                       *)
(*   src/readmat/subsystem.py   SubsystemReader and check_object_reference *)
(*   src/readmat/readmat.py     the earlier stream-based SubsystemReader   *)
(*   src/matio/convert.py       convert_to_object                          *)
(*                                                                         *)
(* Representation.                                                         *)
(*  - fwrap_metadata is a sequence of bytes (0..255); byte offset k of the *)
(*    Python buffer is element k+1 of the sequence.                        *)
(*  - a uint32 is kept as its int32 two's-complement image, because the    *)
(*    integers of TLC are 32 bits wide: 0 .. 2^31-1 stand for              *)
(*    themselves and a negative image x stands for x + 2^32.  The only     *)
(*    value >= 2^31 the inputs contain is the magic 0xDD000000.            *)
(*  - a string is the sequence of its character codes, so that the name    *)
(*    table can be cut out of the metadata bytes as the code does.         *)
(*  - a decoded MATLAB value is a record with a field "kind":              *)
(*      "u32"    uint32 ndarray     [shape, data]   (data in C order)      *)
(*      "f64"    other numeric ndarray [shape, data]                       *)
(*      "cell"   ndarray of dtype object [shape, data]                     *)
(*      "struct" structured ndarray [shape, names, data]; data[i][j] is    *)
(*               field names[j] of element i                               *)
(*      "bool"   np.array(x, dtype=np.bool_)  [val]                        *)
(*      "dict"   a Python dict [map], map a function from keys to values   *)
(*      "none"   None                                                      *)
(*      "error"  a raised exception [type, msg]                            *)
(***************************************************************************)
EXTENDS Integers, Sequences, FiniteSets, TLC

VARIABLES
    fwrap_metadata,   \* self.fwrap_metadata: the FileWrapper bytes, or None
    byte_order,       \* self.byte_order: "<u4" or ">u4"
    raw_data,         \* self.raw_data
    fwrap_vals,       \* self.fwrap_vals: the property-value array
    fwrap_defaults,   \* self.fwrap_defaults[2]: defaults, indexed by class id
    mcos_names,       \* self.mcos_names: the name table, or None
    ssdata,           \* self.ssdata: [has_mcos, metadata, vals, defs]
    op,               \* the operation that ran last
    arg,              \* its input
    ret,              \* its result
    pc                \* "new" | "ready" | "failed" | "done"

vars == <<fwrap_metadata, byte_order, raw_data, fwrap_vals, fwrap_defaults,
          mcos_names, ssdata, op, arg, ret, pc>>

-----------------------------------------------------------------------------
(* Bounds of the model. *)

\* largest plain element value of a generated uint32 array
MaxVal == 2
\* number of elements after the first of a generated uint32 array
MaxTail == 5
\* largest extent of one dimension of a generated object array
MaxDim == 3
\* largest TOC flag written into a generated FileWrapper blob
MaxToc == 5
\* deepest nesting of read_object_arrays calls followed before the model
\* stops with a RecursionError (Python's recursion limit)
MaxDepth == 4

-----------------------------------------------------------------------------
(* Generic helpers. *)

Min(a, b) == IF a < b THEN a ELSE b
Max(a, b) == IF a > b THEN a ELSE b

Range(s) == {s[i] : i \in DOMAIN s}

\* s[a:b] of Python for 0 <= a: elements a+1 .. min(b, len)
Slice(s, a, b) == SubSeq(s, a + 1, Min(b, Len(s)))

RECURSIVE SeqsUpTo(_, _)
SeqsUpTo(S, n) ==
    IF n = 0 THEN {<<>>}
    ELSE LET shorter == SeqsUpTo(S, n - 1)
         IN  shorter \cup {Append(s, x) : s \in {t \in shorter : Len(t) = n - 1}, x \in S}

RECURSIVE Flatten(_)
Flatten(ss) == IF ss = <<>> THEN <<>> ELSE Head(ss) \o Flatten(Tail(ss))

RECURSIVE Zeros(_)
Zeros(n) == IF n <= 0 THEN <<>> ELSE <<0>> \o Zeros(n - 1)

RECURSIVE ProdSeq(_)
ProdSeq(s) == IF s = <<>> THEN 1 ELSE Head(s) * ProdSeq(Tail(s))

None == [kind |-> "none"]
Error(t, m) == [kind |-> "error", type |-> t, msg |-> m]
IsError(v) == v.kind = "error"

-----------------------------------------------------------------------------
(* uint32 values and the byte buffer. *)

\* 0xDD000000 as its int32 image (0xDD000000 - 2^32)
MAGIC == -587202560

\* x >= 2^31 as an unsigned number
IsBig(x) == x < 0

\* np.frombuffer(buf, dtype=byte_order, count=1, offset=off)[0]; the caller
\* has checked CanRead(buf, off, 1)
U32At(buf, order, off) ==
    LET b0 == buf[off + 1]
        b1 == buf[off + 2]
        b2 == buf[off + 3]
        b3 == buf[off + 4]
        lo == IF order = "<u4" THEN b0 ELSE b3
        m1 == IF order = "<u4" THEN b1 ELSE b2
        m2 == IF order = "<u4" THEN b2 ELSE b1
        hi == IF order = "<u4" THEN b3 ELSE b0
    IN  lo + 256 * m1 + 65536 * m2
           + 16777216 * (IF hi >= 128 THEN hi - 256 ELSE hi)

\* np.frombuffer raises ValueError when offset is outside the buffer or the
\* buffer is smaller than offset + 4*count
CanRead(buf, off, count) ==
    /\ off >= 0
    /\ count >= 0
    /\ off <= Len(buf)
    /\ off + 4 * count <= Len(buf)

\* np.frombuffer(buf, dtype=byte_order, count=count, offset=off)
U32sAt(buf, order, off, count) ==
    [i \in 1..count |-> U32At(buf, order, off + 4 * (i - 1))]

-----------------------------------------------------------------------------
(* The writer's side of the layout, used to build the blobs the decoder is  *)
(* run on: the byte image of a u32 in the declared byte order and the six   *)
(* regions the readers index (readmat.py:68-107, 301-314; subsystem.py).    *)

EncU32(v, order) ==
    LET b0 == v % 256
        b1 == (v \div 256) % 256
        b2 == (v \div 65536) % 256
        b3 == (v \div 16777216) % 256
    IN  IF order = "<u4" THEN <<b0, b1, b2, b3>> ELSE <<b3, b2, b1, b0>>

RECURSIVE EncU32s(_, _)
EncU32s(vs, order) ==
    IF vs = <<>> THEN <<>> ELSE EncU32(Head(vs), order) \o EncU32s(Tail(vs), order)

\* pad a byte sequence with NULs to a multiple of 8
Pad8(bs) == bs \o Zeros((8 - (Len(bs) % 8)) % 8)

RECURSIVE NameBytes(_)
NameBytes(names) ==
    IF names = <<>> THEN <<>> ELSE Head(names) \o <<0>> \o NameBytes(Tail(names))

\* one variable-length block: count, entries, 4 bytes of padding when
\* (count * nbytes + 4) is not a multiple of 8
BlockBytes(entries, nbytes, order) ==
    LET body == EncU32s(<<Len(entries)>> \o Flatten(entries), order)
    IN  IF (Len(entries) * nbytes + 4) % 8 # 0 THEN body \o Zeros(4) ELSE body

RECURSIVE BlocksBytes(_, _, _)
BlocksBytes(blocks, nbytes, order) ==
    IF blocks = <<>> THEN <<>>
    ELSE BlockBytes(Head(blocks), nbytes, order)
            \o BlocksBytes(Tail(blocks), nbytes, order)

\* cfg: [toc, names, classes, type1, objects, type2, handles]
\*   classes[i] = <<handle_idx, class_idx>>, objects[i] = <<class_id, type1_id,
\*   type2_id, dep_id>>, type1/type2 = property blocks of <<name_idx, kind,
\*   value>> triples, handles = blocks of <<type2_id>>
BuildMetadata(cfg, order) ==
    LET noff   == IF cfg.toc = 4 THEN 8 ELSE 6
        names  == Pad8(NameBytes(cfg.names))
        r1     == Zeros(16) \o
                  EncU32s(Flatten([i \in DOMAIN cfg.classes |->
                      <<cfg.classes[i][1], cfg.classes[i][2], 0, 0>>]), order)
        r2     == Zeros(8) \o BlocksBytes(cfg.type1, 12, order)
        r3     == Zeros(24) \o
                  EncU32s(Flatten([i \in DOMAIN cfg.objects |->
                      <<cfg.objects[i][1], 0, 0, cfg.objects[i][2],
                        cfg.objects[i][3], cfg.objects[i][4]>>]), order)
        r4     == Zeros(8) \o BlocksBytes(cfg.type2, 12, order)
        r5     == Zeros(8) \o BlocksBytes(cfg.handles, 4, order)
        o1     == 8 + 4 * noff + Len(names)
        o2     == o1 + Len(r1)
        o3     == o2 + Len(r2)
        o4     == o3 + Len(r3)
        o5     == o4 + Len(r4)
        o6     == o5 + Len(r5)
        header == EncU32s(<<cfg.toc, Len(cfg.names), o1, o2, o3, o4, o5, o6>>, order)
                     \o Zeros(4 * (noff - 6))
    IN  header \o names \o r1 \o r2 \o r3 \o r4 \o r5 \o Zeros(8)

-----------------------------------------------------------------------------
(* Strings used by the code, as character codes. *)

S_a == <<97>>
S_b == <<98>>
S_c == <<99>>
S_K == <<75>>
S_H == <<72>>
S_pk == <<112, 107>>
S_Map == <<77, 97, 112>>
S_containers == <<99, 111, 110, 116, 97, 105, 110, 101, 114, 115>>
S_string == <<115, 116, 114, 105, 110, 103>>
S_datetime == <<100, 97, 116, 101, 116, 105, 109, 101>>
S_duration == <<100, 117, 114, 97, 116, 105, 111, 110>>
S_table == <<116, 97, 98, 108, 101>>
S_timetable == <<116, 105, 109, 101, 116, 97, 98, 108, 101>>
S_containers_Map == <<99, 111, 110, 116, 97, 105, 110, 101, 114, 115, 46, 77, 97, 112>>
S_categorical == <<99, 97, 116, 101, 103, 111, 114, 105, 99, 97, 108>>
S_dictionary == <<100, 105, 99, 116, 105, 111, 110, 97, 114, 121>>
S_calendarDuration == <<99, 97, 108, 101, 110, 100, 97, 114, 68, 117, 114, 97, 116, 105, 111, 110>>
S_EnumerationInstanceTag == <<69, 110, 117, 109, 101, 114, 97, 116, 105, 111, 110, 73, 110, 115, 116, 97, 110, 99, 101, 84, 97, 103>>
S_ClassName == <<67, 108, 97, 115, 115, 78, 97, 109, 101>>
S_BuiltinClassName == <<66, 117, 105, 108, 116, 105, 110, 67, 108, 97, 115, 115, 78, 97, 109, 101>>
S_ValueNames == <<86, 97, 108, 117, 101, 78, 97, 109, 101, 115>>
S_ValueIndices == <<86, 97, 108, 117, 101, 73, 110, 100, 105, 99, 101, 115>>
S_Values == <<86, 97, 108, 117, 101, 115>>
S_Handle_ == <<95, 72, 97, 110, 100, 108, 101, 95>>
S_MCOS == <<77, 67, 79, 83>>
S_java == <<106, 97, 118, 97>>

-----------------------------------------------------------------------------
(* Decoded values. *)

U32Arr(shape, data) == [kind |-> "u32", shape |-> shape, data |-> data]
F64Arr(shape, data) == [kind |-> "f64", shape |-> shape, data |-> data]
Cell(shape, data) == [kind |-> "cell", shape |-> shape, data |-> data]
Struct(shape, names, data) ==
    [kind |-> "struct", shape |-> shape, names |-> names, data |-> data]
Bool(b) == [kind |-> "bool", shape |-> <<>>, val |-> b]
Dict(m) == [kind |-> "dict", map |-> m]
\* {"_Class": class_name, "_Props": props}
Object(class_name, props) == [kind |-> "object", Class |-> class_name, Props |-> props]

\* an N x 1 uint32 column
Column(data) == U32Arr(<<Len(data), 1>>, data)

\* isinstance(v, np.ndarray)
IsNdarray(v) == v.kind \in {"u32", "f64", "cell", "struct", "bool"}

\* v.size
Size(v) == ProdSeq(v.shape)

\* the index of name in a structured array's dtype.names, 0 when absent
FieldPos(v, name) ==
    IF \E j \in DOMAIN v.names : v.names[j] = name
    THEN CHOOSE j \in DOMAIN v.names : v.names[j] = name
    ELSE 0

\* a count of at least 2^29: more than any array of the model holds
Huge == 2^29

\* a uint32 as a slice bound or count: exact below 2^31, Huge from there on
NatOf(x) == IF IsBig(x) THEN Huge ELSE x

\* np.prod of a uint32 array: the product modulo 2^64.  A zero factor gives
\* 0; three factors of 0xDD000000 give a multiple of 2^72, which is 0; one or
\* two such factors times small non-zero factors stay at or above 2^24.
ProdU64(dims) ==
    IF 0 \in Range(dims) THEN 0
    ELSE LET nbig == Cardinality({i \in DOMAIN dims : IsBig(dims[i])})
         IN  IF nbig >= 3 THEN 0
             ELSE IF nbig >= 1 THEN Huge
             ELSE ProdSeq(dims)

-----------------------------------------------------------------------------
(* Reference detection: src/readmat/subsystem.py:410-457. *)

\* metadata[0, 0]["EnumerationInstanceTag"] == 0xDD000000 cannot be evaluated:
\* IndexError on an array that is not 2-d or is empty, ValueError on a tag
\* that is not a single element
EnumTagRaises(metadata) ==
    /\ metadata.kind = "struct"
    /\ FieldPos(metadata, S_EnumerationInstanceTag) # 0
    /\ \/ Len(metadata.shape) # 2
       \/ Size(metadata) = 0
       \/ LET tag == metadata.data[1][FieldPos(metadata, S_EnumerationInstanceTag)]
          IN  ~(tag.kind \in {"u32", "f64"} /\ Len(tag.data) = 1)

CheckEnumerationInstanceTag(metadata) ==
    /\ metadata.kind = "struct"
    /\ FieldPos(metadata, S_EnumerationInstanceTag) # 0
    /\ ~EnumTagRaises(metadata)
    /\ metadata.data[1][FieldPos(metadata, S_EnumerationInstanceTag)].data[1] = MAGIC

\* a variant: the 'len == object ids + ndims + 3' equation is not checked
\* check_object_reference without the test of the number of objects
CheckObjectReference_AcceptsEmpty(metadata) ==
    IF ~IsNdarray(metadata) THEN FALSE
    ELSE IF CheckEnumerationInstanceTag(metadata) THEN TRUE
    ELSE IF metadata.kind # "u32" THEN FALSE
    ELSE IF Size(metadata) < 6 THEN FALSE
    ELSE IF Len(metadata.shape) # 2 \/ metadata.shape[2] # 1 THEN FALSE
    ELSE LET d          == metadata.data
             ndims      == d[2]
             dims       == Slice(d, 2, 2 + NatOf(ndims))
             total_objs == ProdU64(dims)
             object_ids == Slice(d, 2 + NatOf(ndims), 2 + NatOf(ndims) + total_objs)
         IN  /\ d[1] = MAGIC
             /\ ~(ndims \in {0, 1})
             /\ 0 \notin Range(object_ids)
             /\ Len(object_ids) + NatOf(ndims) + 3 = metadata.shape[1]
             /\ d[Len(d)] # 0

CheckObjectReference_NoLength(metadata) ==
    IF ~IsNdarray(metadata) THEN FALSE
    ELSE IF CheckEnumerationInstanceTag(metadata) THEN TRUE
    ELSE IF metadata.kind # "u32" THEN FALSE
    ELSE IF Size(metadata) < 6 THEN FALSE
    ELSE IF Len(metadata.shape) # 2 \/ metadata.shape[2] # 1 THEN FALSE
    ELSE LET d          == metadata.data
             ndims      == d[2]
             dims       == Slice(d, 2, 2 + NatOf(ndims))
             total_objs == ProdU64(dims)
             object_ids == Slice(d, 2 + NatOf(ndims), 2 + NatOf(ndims) + total_objs)
         IN  /\ d[1] = MAGIC
             /\ ~(ndims \in {0, 1})
             /\ total_objs # 0
             /\ 0 \notin Range(object_ids)
             /\ d[Len(d)] # 0

\* a variant: the guard of the earlier drafts, at most one dim > 1
CheckObjectReference_OneDim(metadata) ==
    IF ~IsNdarray(metadata) THEN FALSE
    ELSE IF CheckEnumerationInstanceTag(metadata) THEN TRUE
    ELSE IF metadata.kind # "u32" THEN FALSE
    ELSE IF Size(metadata) < 6 THEN FALSE
    ELSE IF Len(metadata.shape) # 2 \/ metadata.shape[2] # 1 THEN FALSE
    ELSE LET d          == metadata.data
             ndims      == d[2]
             dims       == Slice(d, 2, 2 + NatOf(ndims))
             total_objs == ProdU64(dims)
             object_ids == Slice(d, 2 + NatOf(ndims), 2 + NatOf(ndims) + total_objs)
         IN  /\ d[1] = MAGIC
             /\ ~(ndims \in {0, 1})
             /\ Cardinality({i \in DOMAIN dims : dims[i] # 1}) <= 1
             /\ total_objs # 0
             /\ 0 \notin Range(object_ids)
             /\ Len(object_ids) + NatOf(ndims) + 3 = metadata.shape[1]
             /\ d[Len(d)] # 0

\* check_object_reference(metadata); the comparisons are unsigned, so
\* 'x <= 0' is x = 0 and 'ndims <= 1' is ndims \in {0, 1}
CheckObjectReference(metadata) ==
    IF ~IsNdarray(metadata) THEN FALSE
    ELSE IF CheckEnumerationInstanceTag(metadata) THEN TRUE
    ELSE IF metadata.kind # "u32" THEN FALSE
    ELSE IF Size(metadata) < 6 THEN FALSE
    ELSE IF Len(metadata.shape) # 2 \/ metadata.shape[2] # 1 THEN FALSE
    ELSE LET d          == metadata.data
             ndims      == d[2]
             dims       == Slice(d, 2, 2 + NatOf(ndims))
             total_objs == ProdU64(dims)
             object_ids == Slice(d, 2 + NatOf(ndims), 2 + NatOf(ndims) + total_objs)
         IN  /\ d[1] = MAGIC
             /\ ~(ndims \in {0, 1})
             /\ total_objs # 0
             /\ 0 \notin Range(object_ids)
             /\ Len(object_ids) + NatOf(ndims) + 3 = metadata.shape[1]
             /\ d[Len(d)] # 0

-----------------------------------------------------------------------------
(* Reference detection of the stream-based reader:                          *)
(* src/readmat/readmat.py:193-218.                                          *)

\* res[0, 0] raises IndexError unless res is 2-d
LegacyCheckRaises(res) ==
    /\ IsNdarray(res)
    /\ res.kind = "u32"
    /\ \/ Len(res.shape) = 0
       \/ /\ res.shape[1] >= 6
          /\ (Len(res.shape) # 2 \/ res.shape[2] = 0)

\* res[i, 0] of a 2-d array kept in C order
At0(res, i) == res.data[i * res.shape[2] + 1]

\* res[a:b, 0]
Col0(res, a, b) == [k \in 1..Max(0, Min(b, res.shape[1]) - a) |-> At0(res, a + k - 1)]

\* SubsystemReader.check_object_reference(res) of readmat.py
LegacyCheckObjectReference(res) ==
    IF ~IsNdarray(res) THEN FALSE
    ELSE IF res.kind # "u32" THEN FALSE
    ELSE IF Len(res.shape) = 0 \/ res.shape[1] < 6 THEN FALSE
    ELSE IF Len(res.shape) # 2 \/ res.shape[2] = 0 THEN FALSE
    ELSE LET ref_value == At0(res, 0)
             ndims     == At0(res, 1)
             shapes    == Col0(res, 2, 2 + NatOf(ndims))
         IN  /\ ref_value = MAGIC
             /\ ~(ndims \in {0, 1})
             /\ Len(shapes) = NatOf(ndims)

-----------------------------------------------------------------------------
(* Table lookups of the decoder: src/readmat/subsystem.py:50-187.           *)
(* e is the decoder: [md, order, names, raw] = fwrap_metadata, byte_order,  *)
(* mcos_names, raw_data.                                                    *)

Env(md, order, names, raw) == [md |-> md, order |-> order, names |-> names, raw |-> raw]

Words(w) == [kind |-> "words", w |-> w]

\* np.frombuffer(md, count=count, offset=off), or the ValueError it raises
ReadU32s(e, off, count) ==
    IF CanRead(e.md, off, count)
    THEN Words(U32sAt(e.md, e.order, off, count))
    ELSE Error("ValueError", "frombuffer")

\* base + k * size with base read at header offset hdr: None when the sum
\* lies outside the buffer (every read there raises)
EntryOffset(e, hdr, k, size) ==
    IF ~CanRead(e.md, hdr, 1) THEN -1
    ELSE LET base == U32At(e.md, e.order, hdr)
         IN  IF IsBig(base) \/ IsBig(k) \/ base > Len(e.md) \/ k > Len(e.md)
             THEN -1
             ELSE base + k * size

\* split the bytes on NUL and drop the empty pieces
RECURSIVE SplitNames(_, _)
SplitNames(bytes, cur) ==
    IF bytes = <<>> THEN (IF cur = <<>> THEN <<>> ELSE <<cur>>)
    ELSE IF Head(bytes) = 0
         THEN (IF cur = <<>> THEN <<>> ELSE <<cur>>) \o SplitNames(Tail(bytes), <<>>)
         ELSE SplitNames(Tail(bytes), Append(cur, Head(bytes)))

\* get_field_names(num_offsets)
GetFieldNames(md, order, num_offsets) ==
    LET byte_end   == NatOf(U32At(md, order, 8))
        byte_start == 8 + num_offsets * 4
    IN  SplitNames(Slice(md, byte_start, byte_end), <<>>)

\* a str
Str(s) == [kind |-> "str", s |-> s]

\* self.mcos_names[idx - 1]
NameAt(e, idx) ==
    IF idx \in 1..Len(e.names) THEN Str(e.names[idx])
    ELSE Error("IndexError", "mcos_names")

\* get_object_dependencies(object_id): <<class_id, type1_id, type2_id, dep_id>>
GetObjectDependencies(e, object_id) ==
    LET off == EntryOffset(e, 16, object_id, 24)
        r   == IF off < 0 THEN Error("ValueError", "frombuffer") ELSE ReadU32s(e, off, 6)
    IN  IF IsError(r) THEN r
        ELSE Words(<<r.w[1], r.w[4], r.w[5], r.w[6]>>)

\* get_class_name(class_id): <<handle_name, class_name>>
\* get_class_name counting the descriptors from the start of region R1
GetClassName_NoLeadingEntry(e, class_id) ==
    LET off == EntryOffset(e, 8, class_id - 1, 16)
        r   == IF off < 0 THEN Error("ValueError", "frombuffer") ELSE ReadU32s(e, off, 4)
    IN  IF IsError(r) THEN r
        ELSE LET handle_idx == r.w[1]
                 class_idx  == r.w[2]
                 class_name == NameAt(e, class_idx)
                 handle     == IF handle_idx # 0 THEN NameAt(e, handle_idx) ELSE None
             IN  IF IsError(class_name) THEN class_name
                 ELSE IF IsError(handle) THEN handle
                 ELSE [kind |-> "names", handle_name |-> handle, class_name |-> class_name.s]

GetClassName(e, class_id) ==
    LET off == EntryOffset(e, 8, class_id, 16)
        r   == IF off < 0 THEN Error("ValueError", "frombuffer") ELSE ReadU32s(e, off, 4)
    IN  IF IsError(r) THEN r
        ELSE LET handle_idx == r.w[1]
                 class_idx  == r.w[2]
                 class_name == NameAt(e, class_idx)
                 handle     == IF handle_idx # 0 THEN NameAt(e, handle_idx) ELSE None
             IN  IF IsError(class_name) THEN class_name
                 ELSE IF IsError(handle) THEN handle
                 ELSE [kind |-> "names", handle_name |-> handle, class_name |-> class_name.s]

\* the 'while id > 0' loop of get_ids: the offset of block id, -1 when a
\* read leaves the buffer
RECURSIVE SkipBlocks(_, _, _, _)
SkipBlocks(e, id, byte_offset, nbytes) ==
    IF id = 0 THEN byte_offset
    ELSE IF IsBig(id) \/ ~CanRead(e.md, byte_offset, 1) THEN -1
    ELSE LET nblocks == U32At(e.md, e.order, byte_offset)
         IN  IF IsBig(nblocks) \/ nblocks > Len(e.md) THEN -1
             ELSE SkipBlocks(e, id - 1,
                     byte_offset + 4 + nblocks * nbytes
                        + (IF ((nblocks * nbytes) + 4) % 8 # 0 THEN 4 ELSE 0),
                     nbytes)

\* get_ids(id, byte_offset, nbytes): the rows of the block, nbytes \div 4
\* words each
GetIds(e, id, byte_offset, nbytes) ==
    LET off == IF byte_offset < 0 THEN -1 ELSE SkipBlocks(e, id, byte_offset, nbytes)
    IN  IF off < 0 \/ ~CanRead(e.md, off, 1) THEN Error("ValueError", "frombuffer")
        ELSE LET nblocks == U32At(e.md, e.order, off)
                 width   == nbytes \div 4
             IN  IF IsBig(nblocks) \/ nblocks > Len(e.md)
                    \/ ~CanRead(e.md, off + 4, nblocks * width)
                 THEN Error("ValueError", "frombuffer")
                 ELSE [kind |-> "ids",
                       rows |-> [i \in 1..nblocks |->
                                   U32sAt(e.md, e.order, off + 4 + (i - 1) * nbytes, width)]]

\* the last index i >= idx with blocks[i][4] == type2_id
RECURSIVE FirstType2_LastMatch(_, _, _, _, _)
FirstType2_LastMatch(e, start, count, idx, type2_id) ==
    IF idx >= count THEN -1
    ELSE LET later == FirstType2_LastMatch(e, start, count, idx + 1, type2_id)
         IN  IF later >= 0 THEN later
             ELSE IF U32At(e.md, e.order, start + idx * 24 + 16) = type2_id THEN idx
             ELSE -1

\* the first index i with blocks[i][4] == type2_id, 0 when there is none
RECURSIVE FirstType2(_, _, _, _, _)
FirstType2(e, start, count, idx, type2_id) ==
    IF idx >= count THEN -1
    ELSE IF U32At(e.md, e.order, start + idx * 24 + 16) = type2_id THEN idx
    ELSE FirstType2(e, start, count, idx + 1, type2_id)

\* get_handle_class_instance(type2_id): <<class_id, object_id>>
\* get_handle_class_instance counting the blocks behind the zero header of
\* region R3 from 0
GetHandleClassInstance_SkipsHeader(e, type2_id) ==
    IF ~CanRead(e.md, 16, 2) THEN Error("ValueError", "frombuffer")
    ELSE LET start == NatOf(U32At(e.md, e.order, 16))
             end   == NatOf(U32At(e.md, e.order, 20))
             lo    == Min(start, Len(e.md))
             hi    == Max(lo, Min(end, Len(e.md)))
             size  == hi - lo
         IN  IF size % 4 # 0 THEN Error("ValueError", "frombuffer")
             ELSE IF (size \div 4) % 6 # 0 THEN Error("ValueError", "reshape")
             ELSE LET idx == FirstType2(e, lo, size \div 24, 1, type2_id)
                  IN  IF idx < 0
                      THEN Error("ValueError", "Handle class instance not found")
                      ELSE Words(<<U32At(e.md, e.order, lo + idx * 24), idx - 1>>)

GetHandleClassInstance(e, type2_id) ==
    IF ~CanRead(e.md, 16, 2) THEN Error("ValueError", "frombuffer")
    ELSE LET start == NatOf(U32At(e.md, e.order, 16))
             end   == NatOf(U32At(e.md, e.order, 20))
             lo    == Min(start, Len(e.md))
             hi    == Max(lo, Min(end, Len(e.md)))
             size  == hi - lo
         IN  IF size % 4 # 0 THEN Error("ValueError", "frombuffer")
             ELSE IF (size \div 4) % 6 # 0 THEN Error("ValueError", "reshape")
             ELSE LET idx == FirstType2(e, lo, size \div 24, 0, type2_id)
                  IN  IF idx < 0
                      THEN Error("ValueError", "Handle class instance not found")
                      ELSE Words(<<U32At(e.md, e.order, lo + idx * 24), idx>>)

-----------------------------------------------------------------------------
(* Index arithmetic of numpy arrays; data is kept in C order. *)

\* the multi-index (0-based) of C-order position c in an array of shape sh
RECURSIVE UnravelC(_, _)
UnravelC(c, sh) ==
    IF sh = <<>> THEN <<>>
    ELSE LET rest == ProdSeq(Tail(sh))
         IN  <<c \div rest>> \o UnravelC(c % rest, Tail(sh))

\* the column-major (order="F") position of multi-index idx
RECURSIVE RavelF(_, _)
RavelF(idx, sh) ==
    IF sh = <<>> THEN 0
    ELSE Head(idx) + Head(sh) * RavelF(Tail(idx), Tail(sh))

\* the row-major (order="C") position of multi-index idx
RECURSIVE RavelC(_, _)
RavelC(idx, sh) ==
    IF sh = <<>> THEN 0
    ELSE Head(idx) * ProdSeq(Tail(sh)) + RavelC(Tail(idx), Tail(sh))

\* np.array(list).reshape(sh): the C-order data of the result
ReshapeC(list, sh) == list

\* np.array(list).reshape(sh, order="F"): the C-order data of the result
ReshapeF(list, sh) ==
    [c \in 1..Len(list) |-> list[RavelF(UnravelC(c - 1, sh), sh) + 1]]

-----------------------------------------------------------------------------
(* Class converters: src/matio/convert.py:19-62. *)

\* the result of one of the mat_to_* converters applied to props
Converted(fn, props) == [kind |-> "converted", by |-> fn, of |-> props]

\* CLASS_TO_FUNCTION
ClassToFunction ==
    {S_datetime, S_duration, S_string, S_table, S_timetable, S_containers_Map,
     S_categorical, S_dictionary, S_calendarDuration}

\* CLASS_TO_FUNCTION[class_name](props, byte_order, add_table_attrs)
ApplyConverter(props, class_name) ==
    IF class_name = S_containers_Map
    THEN Object(S_containers_Map, Converted(class_name, props))
    ELSE Converted(class_name, props)

\* a variant: raw_data is ignored
ConvertToObject_IgnoreRaw(props, class_name, order, raw, add_table_attrs) ==
    IF class_name \in ClassToFunction
    THEN ApplyConverter(props, class_name)
    ELSE Object(class_name, props)

\* convert_to_object(props, class_name, byte_order, raw_data, add_table_attrs)
ConvertToObject(props, class_name, order, raw, add_table_attrs) ==
    IF raw THEN Object(class_name, props)
    ELSE IF class_name \in ClassToFunction
         THEN ApplyConverter(props, class_name)
         ELSE Object(class_name, props)

-----------------------------------------------------------------------------
(* The reference walker and the object resolver:                            *)
(* src/readmat/subsystem.py:189-407.                                        *)
(*                                                                          *)
(* st = [vals, defs] is the decoder's mutable part: fwrap_vals (indexed     *)
(* from 0 by field_value) and fwrap_defaults[2] (indexed from 0 by class    *)
(* id).  Every operator returns [v, c, st]: v the value returned or the     *)
(* exception raised, st the tables afterwards, and c, for the walker, the   *)
(* array it was given as the in-place assignments arr[idx] = ... left it.   *)
(* n is the depth of read_object_arrays calls still allowed.                *)

R(v, c, st) == [v |-> v, c |-> c, st |-> st]

\* Body applied to the value v: a local variable assigned once
Let(v, Body(_)) == Body(v)

\* d[k] = v on a dict
Put(m, k, v) == [x \in (DOMAIN m) \cup {k} |-> IF x = k THEN v ELSE m[x]]

\* str(n) for n >= 0
RECURSIVE DecStr(_)
DecStr(n) == IF n < 10 THEN <<48 + n>> ELSE DecStr(n \div 10) \o <<48 + (n % 10)>>

\* handle_name + "." + class_name, or class_name
FullClassName(cn) ==
    IF cn.handle_name.kind = "none" THEN cn.class_name
    ELSE cn.handle_name.s \o <<46>> \o cn.class_name

\* an instance value is replaced by the class default
MergeDefaults_Overwrite(map, dnames, dvals, j) ==
    [x \in (DOMAIN map) \cup Range(dnames) |->
        IF x \in Range(dnames)
        THEN dvals[CHOOSE k \in DOMAIN dnames : dnames[k] = x]
        ELSE map[x]]

\* the defaults loop of read_object_arrays (lines 311-315) on one element,
\* from the j-th default name on
RECURSIVE MergeDefaults(_, _, _, _)
MergeDefaults(map, dnames, dvals, j) ==
    IF j > Len(dnames) THEN map
    ELSE MergeDefaults(
            IF dnames[j] \in DOMAIN map THEN map ELSE Put(map, dnames[j], dvals[j]),
            dnames, dvals, j + 1)

\* The methods call one another through Call, which dispatches on the name
\* of the method; RecX(...) is the call of method X.
RECURSIVE Call(_)

RecFindObjectReference(e, st, arr, n) ==
    Call([f |-> "FindObjectReference", a |-> <<e, st, arr, n>>])
RecFindCell(e, st, arr, i, n) ==
    Call([f |-> "FindCell", a |-> <<e, st, arr, i, n>>])
RecFindStruct(e, st, arr, i, j, n) ==
    Call([f |-> "FindStruct", a |-> <<e, st, arr, i, j, n>>])
RecReadMcosObject(e, st, metadata, type_system, n) ==
    Call([f |-> "ReadMcosObject", a |-> <<e, st, metadata, type_system, n>>])
RecReadMcosEnumeration(e, st, metadata, n) ==
    Call([f |-> "ReadMcosEnumeration", a |-> <<e, st, metadata, n>>])
RecEnumLoop(e, st, items, i, enum_array, n) ==
    Call([f |-> "EnumLoop", a |-> <<e, st, items, i, enum_array, n>>])
RecReadNormalMcos(e, st, metadata, n) ==
    Call([f |-> "ReadNormalMcos", a |-> <<e, st, metadata, n>>])
RecReadObjectArrays(e, st, object_ids, class_id, dims, n) ==
    Call([f |-> "ReadObjectArrays", a |-> <<e, st, object_ids, class_id, dims, n>>])
RecObjectLoop(e, st, object_ids, i, props_list, n) ==
    Call([f |-> "ObjectLoop", a |-> <<e, st, object_ids, i, props_list, n>>])
RecExtractFields(e, st, type1_id, type2_id, dep_id, n) ==
    Call([f |-> "ExtractFields", a |-> <<e, st, type1_id, type2_id, dep_id, n>>])
RecFieldLoop(e, st, rows, i, obj_props, n) ==
    Call([f |-> "FieldLoop", a |-> <<e, st, rows, i, obj_props, n>>])
RecExtractHandles(e, st, dep_id, n) ==
    Call([f |-> "ExtractHandles", a |-> <<e, st, dep_id, n>>])
RecHandleLoop(e, st, rows, i, handles, n) ==
    Call([f |-> "HandleLoop", a |-> <<e, st, rows, i, handles, n>>])

\* find_object_reference(arr)
FindObjectReference(e, st, arr, n) ==
    IF ~IsNdarray(arr) THEN R(arr, arr, st)
    ELSE IF EnumTagRaises(arr) THEN R(Error("IndexError", "tag"), arr, st)
    ELSE IF CheckObjectReference(arr)
         THEN Let(RecReadMcosObject(e, st, arr, S_MCOS, n), LAMBDA r : R(r.v, arr, r.st))
    ELSE IF arr.kind = "cell" THEN RecFindCell(e, st, arr, 1, n)
    ELSE IF arr.kind = "struct" THEN RecFindStruct(e, st, arr, 1, 1, n)
    ELSE R(arr, arr, st)

\* the loop over a cell array that does not descend into the elements that
\* are no references
FindCell_SkipsNested(e, st, arr, i, n) ==
    IF i > Len(arr.data) THEN R(arr, arr, st)
    ELSE Let(arr.data[i], LAMBDA item :
         IF IsNdarray(item) /\ EnumTagRaises(item)
         THEN R(Error("IndexError", "tag"), arr, st)
         ELSE IF CheckObjectReference(item)
         THEN Let(RecReadMcosObject(e, st, item, S_MCOS, n), LAMBDA r :
              IF IsError(r.v) THEN R(r.v, arr, r.st)
              ELSE RecFindCell(e, r.st, [arr EXCEPT !.data[i] = r.v], i + 1, n))
         ELSE RecFindCell(e, st, arr, i + 1, n))

\* the loop over a cell array that clears the elements that are no arrays,
\* among them the objects an earlier walk put there
FindCell_DropsResolved(e, st, arr, i, n) ==
    IF i > Len(arr.data) THEN R(arr, arr, st)
    ELSE Let(arr.data[i], LAMBDA item :
         IF IsNdarray(item) /\ EnumTagRaises(item)
         THEN R(Error("IndexError", "tag"), arr, st)
         ELSE IF CheckObjectReference(item)
         THEN Let(RecReadMcosObject(e, st, item, S_MCOS, n), LAMBDA r :
              IF IsError(r.v) THEN R(r.v, arr, r.st)
              ELSE RecFindCell(e, r.st, [arr EXCEPT !.data[i] = r.v], i + 1, n))
         ELSE IF ~IsNdarray(item)
         THEN RecFindCell(e, st, [arr EXCEPT !.data[i] = None], i + 1, n)
         ELSE Let(RecFindObjectReference(e, st, item, n), LAMBDA r :
              IF IsError(r.v) THEN R(r.v, [arr EXCEPT !.data[i] = r.c], r.st)
              ELSE RecFindCell(e, r.st, [arr EXCEPT !.data[i] = r.c], i + 1, n)))

\* the loop over a cell array (lines 226-231), from element i on
FindCell(e, st, arr, i, n) ==
    IF i > Len(arr.data) THEN R(arr, arr, st)
    ELSE Let(arr.data[i], LAMBDA item :
         IF IsNdarray(item) /\ EnumTagRaises(item)
         THEN R(Error("IndexError", "tag"), arr, st)
         ELSE IF CheckObjectReference(item)
         THEN Let(RecReadMcosObject(e, st, item, S_MCOS, n), LAMBDA r :
              IF IsError(r.v) THEN R(r.v, arr, r.st)
              ELSE RecFindCell(e, r.st, [arr EXCEPT !.data[i] = r.v], i + 1, n))
         ELSE Let(RecFindObjectReference(e, st, item, n), LAMBDA r :
              IF IsError(r.v) THEN R(r.v, [arr EXCEPT !.data[i] = r.c], r.st)
              ELSE RecFindCell(e, r.st, [arr EXCEPT !.data[i] = r.c], i + 1, n)))

\* the loop over a struct array (lines 237-243), from field j of element i on
\* the struct branch without the descent into a field that is not itself a
\* reference
FindStruct_SkipsNested(e, st, arr, i, j, n) ==
    IF i > Len(arr.data) THEN R(arr, arr, st)
    ELSE IF j > Len(arr.names) THEN RecFindStruct(e, st, arr, i + 1, 1, n)
    ELSE Let(arr.data[i][j], LAMBDA field_val :
         IF IsNdarray(field_val) /\ EnumTagRaises(field_val)
         THEN R(Error("IndexError", "tag"), arr, st)
         ELSE IF CheckObjectReference(field_val)
         THEN Let(RecReadMcosObject(e, st, field_val, S_MCOS, n), LAMBDA r :
              IF IsError(r.v) THEN R(r.v, arr, r.st)
              ELSE RecFindStruct(e, r.st, [arr EXCEPT !.data[i][j] = r.v], i, j + 1, n))
         ELSE RecFindStruct(e, st, arr, i, j + 1, n))

FindStruct(e, st, arr, i, j, n) ==
    IF i > Len(arr.data) THEN R(arr, arr, st)
    ELSE IF j > Len(arr.names) THEN RecFindStruct(e, st, arr, i + 1, 1, n)
    ELSE Let(arr.data[i][j], LAMBDA field_val :
         IF IsNdarray(field_val) /\ EnumTagRaises(field_val)
         THEN R(Error("IndexError", "tag"), arr, st)
         ELSE IF CheckObjectReference(field_val)
         THEN Let(RecReadMcosObject(e, st, field_val, S_MCOS, n), LAMBDA r :
              IF IsError(r.v) THEN R(r.v, arr, r.st)
              ELSE RecFindStruct(e, r.st, [arr EXCEPT !.data[i][j] = r.v], i, j + 1, n))
         ELSE Let(RecFindObjectReference(e, st, field_val, n), LAMBDA r :
              IF IsError(r.v) THEN R(r.v, [arr EXCEPT !.data[i][j] = r.c], r.st)
              ELSE RecFindStruct(e, r.st, [arr EXCEPT !.data[i][j] = r.c], i, j + 1, n)))

\* read_mcos_object(metadata, type_system)
ReadMcosObject(e, st, metadata, type_system, n) ==
    IF type_system # S_MCOS THEN R(metadata, None, st)
    ELSE IF metadata.kind = "struct"
         THEN IF FieldPos(metadata, S_EnumerationInstanceTag) # 0
              THEN RecReadMcosEnumeration(e, st, metadata, n)
              ELSE R(metadata, None, st)
    ELSE IF metadata.kind = "u32" THEN RecReadNormalMcos(e, st, metadata, n)
    ELSE R(metadata, None, st)

\* read_normal_mcos(metadata)
ReadNormalMcos(e, st, metadata, n) ==
    IF Len(metadata.shape) # 2 \/ metadata.shape[1] < 2 \/ metadata.shape[2] = 0
    THEN R(Error("IndexError", "metadata"), None, st)
    ELSE Let(NatOf(At0(metadata, 1)), LAMBDA ndims :
         Let(Col0(metadata, 2, 2 + ndims), LAMBDA dims :
             RecReadObjectArrays(
                 e, st,
                 Col0(metadata, 2 + ndims, 2 + ndims + ProdU64(dims)),
                 At0(metadata, metadata.shape[1] - 1),
                 dims, n)))

\* np.array(props_list).reshape(dims)
PropsArray(props_list, dims) == Cell(dims, ReshapeC(props_list, dims))

\* lines 308-315: the defaults merged into every element of obj_props
WithDefaults(obj_props, obj_default_props) ==
    IF Size(obj_default_props) = 0 THEN obj_props
    ELSE [obj_props EXCEPT !.data =
            [i \in DOMAIN obj_props.data |->
                Dict(MergeDefaults(obj_props.data[i].map, obj_default_props.names,
                                   obj_default_props.data[1], 1))]]

\* lines 317-334: the class name attached, the converter applied
Tagged(e, st, obj_props, cn) ==
    IF IsError(cn) THEN R(cn, None, st)
    ELSE R(Object(FullClassName(cn),
                  IF ~e.raw
                  THEN ConvertToObject(obj_props, FullClassName(cn), e.order, FALSE, FALSE)
                  ELSE obj_props),
           None, st)

\* lines 307-334 of read_object_arrays: rd is the walker's result on the
\* class defaults, st2 the tables it left
AfterDefaults(e, st2, obj_props, class_id, rd) ==
    IF IsError(rd.v) THEN R(rd.v, None, st2)
    ELSE IF ~IsNdarray(rd.v) THEN R(Error("AttributeError", "size"), None, st2)
    ELSE IF Size(rd.v) # 0 /\ rd.v.kind # "struct"
         THEN R(Error("TypeError", "dtype.names"), None, st2)
    ELSE Tagged(e, st2, WithDefaults(obj_props, rd.v), GetClassName(e, class_id))

\* read_object_arrays(object_ids, class_id, dims)
ReadObjectArrays(e, st, object_ids, class_id, dims, n) ==
    IF n = 0 THEN R(Error("RecursionError", "depth"), None, st)
    ELSE Let(RecObjectLoop(e, st, object_ids, 1, <<>>, n - 1), LAMBDA r1 :
         IF IsError(r1.v) THEN r1
         ELSE IF \E i \in DOMAIN dims : IsBig(dims[i])
              THEN R(Error("ValueError", "reshape"), None, r1.st)
         ELSE IF ProdSeq(dims) # Len(r1.v.items)
              THEN R(Error("ValueError", "reshape"), None, r1.st)
         ELSE IF ~(class_id \in 0..(Len(r1.st.defs) - 1))
              THEN R(Error("IndexError", "fwrap_defaults"), None, r1.st)
         ELSE Let(RecFindObjectReference(e, r1.st, r1.st.defs[class_id + 1], n - 1),
                  LAMBDA rd :
                  AfterDefaults(e, [rd.st EXCEPT !.defs[class_id + 1] = rd.c],
                                PropsArray(r1.v.items, dims), class_id, rd)))

\* the loop over object_ids (lines 301-305), from the i-th id on
ObjectLoop(e, st, object_ids, i, props_list, n) ==
    IF i > Len(object_ids) THEN R([kind |-> "list", items |-> props_list], None, st)
    ELSE Let(GetObjectDependencies(e, object_ids[i]), LAMBDA deps :
         IF IsError(deps) THEN R(deps, None, st)
         ELSE Let(RecExtractFields(e, st, deps.w[2], deps.w[3], deps.w[4], n), LAMBDA r :
              IF IsError(r.v) THEN r
              ELSE RecObjectLoop(e, r.st, object_ids, i + 1, Append(props_list, r.v), n)))

\* obj_props[self.mcos_names[field_idx - 1]] = field_content, and on to the
\* next entry
StoreField(e, st, rows, i, obj_props, n, field_content) ==
    IF IsError(field_content) THEN R(field_content, None, st)
    ELSE Let(NameAt(e, rows[i][1]), LAMBDA name :
         IF IsError(name) THEN R(name, None, st)
         ELSE RecFieldLoop(e, st, rows, i + 1, Put(obj_props, name.s, field_content), n))

\* the loop over field_ids with an entry of unknown field type skipped
FieldLoop_SkipUnknown(e, st, rows, i, obj_props, n) ==
    IF i > Len(rows) THEN R(Dict(obj_props), None, st)
    ELSE IF rows[i][2] = 1
    THEN IF ~(rows[i][3] \in 0..(Len(st.vals) - 1))
         THEN R(Error("IndexError", "fwrap_vals"), None, st)
         ELSE Let(RecFindObjectReference(e, st, st.vals[rows[i][3] + 1], n), LAMBDA r :
              StoreField(e, [r.st EXCEPT !.vals[rows[i][3] + 1] = r.c], rows, i,
                         obj_props, n, r.v))
    ELSE IF rows[i][2] = 2
    THEN StoreField(e, st, rows, i, obj_props, n, Bool(rows[i][3] # 0))
    ELSE RecFieldLoop(e, st, rows, i + 1, obj_props, n)

\* the loop over field_ids (lines 268-279), from the i-th entry
\* <<field_idx, field_type, field_value>> on
FieldLoop(e, st, rows, i, obj_props, n) ==
    IF i > Len(rows) THEN R(Dict(obj_props), None, st)
    ELSE IF rows[i][2] = 1
    THEN IF ~(rows[i][3] \in 0..(Len(st.vals) - 1))
         THEN R(Error("IndexError", "fwrap_vals"), None, st)
         ELSE Let(RecFindObjectReference(e, st, st.vals[rows[i][3] + 1], n), LAMBDA r :
              StoreField(e, [r.st EXCEPT !.vals[rows[i][3] + 1] = r.c], rows, i,
                         obj_props, n, r.v))
    ELSE IF rows[i][2] = 2
    THEN StoreField(e, st, rows, i, obj_props, n, Bool(rows[i][3] # 0))
    ELSE R(Error("ValueError", "Unknown field type"), None, st)

\* the region offset stored at byte hdr of the header, -1 when it cannot be
\* read
RegionOffset(e, hdr) ==
    IF CanRead(e.md, hdr, 1) THEN NatOf(U32At(e.md, e.order, hdr)) ELSE -1

\* d.update(other)
Update(d, other) ==
    [x \in (DOMAIN d) \cup (DOMAIN other) |-> IF x \in DOMAIN other THEN other[x] ELSE d[x]]

\* extract_fields with the two property regions exchanged
\* extract_fields taking the first property region whenever type1_id is
\* non-zero and the second otherwise, without the error
ExtractFields_PrefersType1(e, st, type1_id, type2_id, dep_id, n) ==
    Let(GetIds(e, IF type1_id = 0 THEN type2_id ELSE type1_id,
               RegionOffset(e, IF type1_id = 0 THEN 20 ELSE 12), 12),
        LAMBDA field_ids :
    IF IsError(field_ids) THEN R(field_ids, None, st)
    ELSE Let(RecFieldLoop(e, st, field_ids.rows, 1, <<>>, n), LAMBDA r :
         IF IsError(r.v) THEN r
         ELSE Let(RecExtractHandles(e, r.st, dep_id, n), LAMBDA h :
              IF IsError(h.v) THEN h
              ELSE IF h.v.kind = "none" THEN R(r.v, None, h.st)
              ELSE R(Dict(Update(r.v.map, h.v.map)), None, h.st))))

ExtractFields_SwappedRegions(e, st, type1_id, type2_id, dep_id, n) ==
    IF ~((type1_id = 0 /\ type2_id # 0) \/ (type1_id # 0 /\ type2_id = 0))
    THEN R(Error("ValueError", "Could not determine object type"), None, st)
    ELSE Let(GetIds(e, IF type1_id = 0 THEN type2_id ELSE type1_id,
                    RegionOffset(e, IF type1_id = 0 THEN 12 ELSE 20), 12),
             LAMBDA field_ids :
         IF IsError(field_ids) THEN R(field_ids, None, st)
         ELSE Let(RecFieldLoop(e, st, field_ids.rows, 1, <<>>, n), LAMBDA r :
              IF IsError(r.v) THEN r
              ELSE Let(RecExtractHandles(e, r.st, dep_id, n), LAMBDA h :
                   IF IsError(h.v) THEN h
                   ELSE IF h.v.kind = "none" THEN R(r.v, None, h.st)
                   ELSE R(Dict(Update(r.v.map, h.v.map)), None, h.st))))

\* extract_fields(type1_id, type2_id, dep_id)
ExtractFields(e, st, type1_id, type2_id, dep_id, n) ==
    IF ~((type1_id = 0 /\ type2_id # 0) \/ (type1_id # 0 /\ type2_id = 0))
    THEN R(Error("ValueError", "Could not determine object type"), None, st)
    ELSE Let(GetIds(e, IF type1_id = 0 THEN type2_id ELSE type1_id,
                    RegionOffset(e, IF type1_id = 0 THEN 20 ELSE 12), 12),
             LAMBDA field_ids :
         IF IsError(field_ids) THEN R(field_ids, None, st)
         ELSE Let(RecFieldLoop(e, st, field_ids.rows, 1, <<>>, n), LAMBDA r :
              IF IsError(r.v) THEN r
              ELSE Let(RecExtractHandles(e, r.st, dep_id, n), LAMBDA h :
                   IF IsError(h.v) THEN h
                   ELSE IF h.v.kind = "none" THEN R(r.v, None, h.st)
                   ELSE R(Dict(Update(r.v.map, h.v.map)), None, h.st))))

\* extract_handles(dep_id)
ExtractHandles(e, st, dep_id, n) ==
    Let(GetIds(e, dep_id, RegionOffset(e, 24), 4), LAMBDA ids :
        IF IsError(ids) THEN R(ids, None, st)
        ELSE IF Len(ids.rows) = 0 THEN R(None, None, st)
        ELSE RecHandleLoop(e, st, ids.rows, 1, <<>>, n))

\* the loop over handle_type2_ids with the keys counted from 0
HandleLoop_ZeroBasedKeys(e, st, rows, i, handles, n) ==
    IF i > Len(rows) THEN R(Dict(handles), None, st)
    ELSE Let(GetHandleClassInstance(e, rows[i][1]), LAMBDA h :
         IF IsError(h) THEN R(h, None, st)
         ELSE Let(RecReadObjectArrays(e, st, <<h.w[2]>>, h.w[1], <<1, 1>>, n), LAMBDA r :
              IF IsError(r.v) THEN r
              ELSE RecHandleLoop(e, r.st, rows, i + 1,
                                 Put(handles, S_Handle_ \o DecStr(i - 1), r.v), n)))

\* the loop over handle_type2_ids (lines 203-208), from the i-th id on
HandleLoop(e, st, rows, i, handles, n) ==
    IF i > Len(rows) THEN R(Dict(handles), None, st)
    ELSE Let(GetHandleClassInstance(e, rows[i][1]), LAMBDA h :
         IF IsError(h) THEN R(h, None, st)
         ELSE Let(RecReadObjectArrays(e, st, <<h.w[2]>>, h.w[1], <<1, 1>>, n), LAMBDA r :
              IF IsError(r.v) THEN r
              ELSE RecHandleLoop(e, r.st, rows, i + 1,
                                 Put(handles, S_Handle_ \o DecStr(i), r.v), n)))

\* {"_Values", "_ValueNames", "_Class", "_BuiltinClassName", "_Tag"}
EnumInstance(values, value_names, class_name, builtin_class_name) ==
    [kind |-> "enum", Values |-> values, ValueNames |-> value_names,
     Class |-> class_name, BuiltinClassName |-> builtin_class_name,
     Tag |-> "EnumerationInstance"]

\* wrap_enumeration_instance(enum_array, shapes)["_Values"]
\* (src/matio/class_parser.py:286-294)
WrapEnumerationInstance(enum_array, shapes) ==
    IF Len(enum_array) = 0 THEN Cell(<<0>>, <<>>)
    ELSE IF \E i \in DOMAIN enum_array :
                \/ enum_array[i].Props.kind # "cell"
                \/ Len(enum_array[i].Props.shape) # 2
                \/ Size(enum_array[i].Props) = 0
         THEN Error("IndexError", "_Props")
    ELSE IF ProdSeq(shapes) # Len(enum_array) THEN Error("ValueError", "reshape")
    ELSE Cell(shapes, ReshapeF([i \in DOMAIN enum_array |-> enum_array[i].Props.data[1]], shapes))

\* the nditer loop of read_mcos_enumeration (lines 362-365), from item i on
EnumLoop(e, st, items, i, enum_array, n) ==
    IF i > Len(items) THEN R([kind |-> "list", items |-> enum_array], None, st)
    ELSE IF ~IsNdarray(items[i]) \/ items[i].kind # "u32"
         THEN R(Error("TypeError", "metadata"), None, st)
    ELSE Let(RecReadNormalMcos(e, st, items[i], n), LAMBDA r :
         IF IsError(r.v) THEN r
         ELSE RecEnumLoop(e, r.st, items, i + 1, Append(enum_array, r.v), n))

\* the elements of an array in column-major order
ColumnMajor(a) ==
    [f \in 1..Size(a) |->
        a.data[CHOOSE c \in 1..Size(a) : RavelF(UnravelC(c - 1, a.shape), a.shape) + 1 = f]]

\* the decoder run against a NumPy whose nditer walks the result of
\* mmdata[value_idx] in the order k: "C" (row-major) or "F" (column-major)
WithNditer(e, k) ==
    [md |-> e.md, order |-> e.order, names |-> e.names, raw |-> e.raw, nditer |-> k]

\* the indices in the order np.nditer(mmdata[value_idx]) visits them (line
\* 362). nditer walks in memory order and NumPy promises no memory order for
\* the result of an index with an integer array, so the order is one the
\* environment chooses; the two orders differ only when value_idx has two
\* dimensions larger than 1, and a decoder that is given no order is only
\* run on indices where they agree
NditerOrder(e, value_idx) ==
    IF "nditer" \in DOMAIN e /\ e.nditer = "F" THEN ColumnMajor(value_idx)
    ELSE value_idx.data

\* mmdata[idx[k]], mmdata[idx[k + 1]], ...: the rows of mmdata the indices
\* select, or the IndexError of an index outside axis 0
RECURSIVE TakeRows(_, _, _)
TakeRows(mmdata, idx, k) ==
    IF k > Len(idx) THEN [kind |-> "list", items |-> <<>>]
    ELSE IF IsBig(idx[k]) \/ idx[k] >= mmdata.shape[1] THEN Error("IndexError", "Values")
    ELSE Let(TakeRows(mmdata, idx, k + 1), LAMBDA rest :
         IF IsError(rest) THEN rest
         ELSE [kind |-> "list",
               items |-> SubSeq(mmdata.data,
                                idx[k] * (Size(mmdata) \div mmdata.shape[1]) + 1,
                                (idx[k] + 1) * (Size(mmdata) \div mmdata.shape[1]))
                            \o rest.items])

\* lines 349-373 of read_mcos_enumeration, the names looked up
EnumFromNames(e, st, n, cn, bn, names_list, value_idx, items) ==
    IF IsError(cn) THEN R(cn, None, st)
    ELSE IF IsError(bn) THEN R(bn, None, st)
    ELSE IF \E k \in DOMAIN names_list : IsError(names_list[k])
         THEN R(Error("IndexError", "mcos_names"), None, st)
    ELSE IF Len(names_list) # Size(value_idx)
         THEN R(Error("ValueError", "reshape"), None, st)
    ELSE IF IsError(items) THEN R(items, None, st)
    ELSE Let(RecEnumLoop(e, st, items.items, 1, <<>>, n), LAMBDA r :
         IF IsError(r.v) THEN r
         ELSE Let(WrapEnumerationInstance(r.v.items, value_idx.shape), LAMBDA values :
              IF IsError(values) THEN R(values, None, r.st)
              ELSE R(EnumInstance(
                        values,
                        [kind |-> "strs", shape |-> value_idx.shape,
                         data |-> ReshapeF([k \in DOMAIN names_list |-> names_list[k].s],
                                           value_idx.shape)],
                        FullClassName(cn),
                        IF bn.kind = "none" THEN None ELSE Str(FullClassName(bn))),
                     None, r.st)))

\* lines 339-348 of read_mcos_enumeration, the fields of metadata[0, 0] read
EnumFromFields(e, st, n, class_arr, builtin_arr, value_name_idx, value_idx, mmdata) ==
    IF \E a \in {class_arr, builtin_arr} : ~IsNdarray(a) \/ a.kind # "u32" \/ Size(a) # 1
    THEN R(Error("ValueError", "item"), None, st)
    ELSE IF \E a \in {value_name_idx, value_idx} : ~IsNdarray(a) \/ a.kind # "u32"
    THEN R(Error("TypeError", "index"), None, st)
    ELSE IF ~IsNdarray(mmdata) \/ (Size(mmdata) # 0 /\ mmdata.kind # "cell")
    THEN R(Error("TypeError", "Values"), None, st)
    ELSE EnumFromNames(
            e, st, n,
            GetClassName(e, class_arr.data[1]),
            IF builtin_arr.data[1] # 0 THEN GetClassName(e, builtin_arr.data[1]) ELSE None,
            [k \in DOMAIN value_name_idx.data |-> NameAt(e, value_name_idx.data[k])],
            value_idx,
            IF Size(mmdata) = 0 THEN [kind |-> "list", items |-> <<>>]
            ELSE TakeRows(mmdata, NditerOrder(e, value_idx), 1))

\* metadata[0, 0][name]
EnumField(metadata, name) == metadata.data[1][FieldPos(metadata, name)]

\* read_mcos_enumeration(metadata)
ReadMcosEnumeration(e, st, metadata, n) ==
    IF Len(metadata.shape) # 2 \/ Size(metadata) = 0
    THEN R(Error("IndexError", "metadata"), None, st)
    ELSE IF \E nm \in {S_ClassName, S_BuiltinClassName, S_ValueNames, S_ValueIndices, S_Values} :
                FieldPos(metadata, nm) = 0
    THEN R(Error("ValueError", "no field of name"), None, st)
    ELSE EnumFromFields(e, st, n,
                        EnumField(metadata, S_ClassName),
                        EnumField(metadata, S_BuiltinClassName),
                        EnumField(metadata, S_ValueNames),
                        EnumField(metadata, S_ValueIndices),
                        EnumField(metadata, S_Values))

Call(c) ==
    CASE c.f = "FindObjectReference" ->
            FindObjectReference(c.a[1], c.a[2], c.a[3], c.a[4])
      [] c.f = "FindCell" ->
            FindCell(c.a[1], c.a[2], c.a[3], c.a[4], c.a[5])
      [] c.f = "FindStruct" ->
            FindStruct(c.a[1], c.a[2], c.a[3], c.a[4], c.a[5], c.a[6])
      [] c.f = "ReadMcosObject" ->
            ReadMcosObject(c.a[1], c.a[2], c.a[3], c.a[4], c.a[5])
      [] c.f = "ReadMcosEnumeration" ->
            ReadMcosEnumeration(c.a[1], c.a[2], c.a[3], c.a[4])
      [] c.f = "EnumLoop" ->
            EnumLoop(c.a[1], c.a[2], c.a[3], c.a[4], c.a[5], c.a[6])
      [] c.f = "ReadNormalMcos" ->
            ReadNormalMcos(c.a[1], c.a[2], c.a[3], c.a[4])
      [] c.f = "ReadObjectArrays" ->
            ReadObjectArrays(c.a[1], c.a[2], c.a[3], c.a[4], c.a[5], c.a[6])
      [] c.f = "ObjectLoop" ->
            ObjectLoop(c.a[1], c.a[2], c.a[3], c.a[4], c.a[5], c.a[6])
      [] c.f = "ExtractFields" ->
            ExtractFields(c.a[1], c.a[2], c.a[3], c.a[4], c.a[5], c.a[6])
      [] c.f = "FieldLoop" ->
            FieldLoop(c.a[1], c.a[2], c.a[3], c.a[4], c.a[5], c.a[6])
      [] c.f = "ExtractHandles" ->
            ExtractHandles(c.a[1], c.a[2], c.a[3], c.a[4])
      [] c.f = "HandleLoop" ->
            HandleLoop(c.a[1], c.a[2], c.a[3], c.a[4], c.a[5], c.a[6])

-----------------------------------------------------------------------------
(* The earlier reader: src/readmat/readmat.py:220-256, 431-464.             *)
(* Arithmetic on numpy integers follows NumPy 2: a Python int combined with *)
(* a uint64 stays uint64 and wraps.                                         *)

\* len(self._unique_objects): the 24-byte descriptors of region 3 after the
\* first (readmat.py:92-107)
LegacyNumObjects(e) ==
    LET start == NatOf(U32At(e.md, e.order, 16)) + 24
        end   == Min(NatOf(U32At(e.md, e.order, 20)), Len(e.md))
    IN  IF end <= start THEN 0 ELSE (end - start + 23) \div 24

\* read_nested_objects(object_id): the dict of one object; the property
\* values it reads from the stream are not modelled
LegacyReadNestedObjects(e, object_id) ==
    IF object_id - 1 \in (-LegacyNumObjects(e))..(LegacyNumObjects(e) - 1)
    THEN [kind |-> "nested", object_id |-> object_id]
    ELSE Error("IndexError", "_unique_objects")

\* read_object_arrays(object_id, dims) of readmat.py
LegacyReadObjectArrays(e, object_id, dims) ==
    LET total == ProdU64(dims)
        first == IF total > object_id + 1 THEN object_id + 1 ELSE object_id - total + 1
        items == [k \in 1..(object_id + 1 - first) |-> LegacyReadNestedObjects(e, first + k - 1)]
    IN  IF first <= object_id
           /\ ~(object_id - 1 \in (-LegacyNumObjects(e))..(LegacyNumObjects(e) - 1))
        THEN Error("IndexError", "_unique_objects")
        ELSE IF \E k \in DOMAIN items : IsError(items[k]) THEN Error("IndexError", "_unique_objects")
        ELSE IF total # Len(items) THEN Error("ValueError", "reshape")
        ELSE IF items = <<>> THEN F64Arr(dims, <<>>)
        ELSE Cell(dims, items)

\* the first exception among the results, or None
FirstError(rs) ==
    IF \E k \in DOMAIN rs : IsError(rs[k])
    THEN rs[CHOOSE k \in DOMAIN rs : IsError(rs[k]) /\ \A j \in 1..(k - 1) : ~IsError(rs[j])]
    ELSE None

\* process_res_array(arr)
RECURSIVE ProcessResArray(_, _)
ProcessResArray(e, arr) ==
    IF ~IsNdarray(arr) THEN arr
    ELSE IF arr.kind = "struct"
    THEN LET cols == [j \in DOMAIN arr.names |->
                        [i \in DOMAIN arr.data |-> ProcessResArray(e, arr.data[i][j])]]
             err  == FirstError(Flatten(cols))
         IN  IF IsError(err) THEN err
             ELSE [arr EXCEPT !.data = [i \in DOMAIN arr.data |->
                                          [j \in DOMAIN arr.names |-> cols[j][i]]]]
    ELSE IF arr.kind = "cell"
    THEN LET items == [i \in DOMAIN arr.data |-> ProcessResArray(e, arr.data[i])]
             err   == FirstError(items)
         IN  IF IsError(err) THEN err ELSE [arr EXCEPT !.data = items]
    ELSE IF LegacyCheckRaises(arr) THEN Error("IndexError", "res")
    ELSE IF LegacyCheckObjectReference(arr)
    THEN LegacyReadObjectArrays(e, NatOf(At0(arr, arr.shape[1] - 2)),
                                Col0(arr, 2, 2 + NatOf(At0(arr, 1))))
    ELSE arr

\* get_num_fields of the earlier reader (readmat.py:289-299): the block id
\* and the header offset of the region, <<0, 0>> when no region is chosen
LegacyObjTypeRegion(type1_id, type2_id) ==
    IF type1_id # 0 /\ type2_id = 0 THEN <<type1_id, 12>>
    ELSE IF type1_id = 0 /\ type2_id # 0 THEN <<type2_id, 20>>
    ELSE <<0, 0>>

\* the 'while obj_type_id - 1 > 0' loops of get_num_fields (lines 305-314)
\* and _get_handle_pos (lines 115-124): the stream position after the blocks
\* before block id are passed, -1 when a read meets the end of the stream
RECURSIVE LegacySkipBlocks(_, _, _, _)
LegacySkipBlocks(e, id, pos, nbytes) ==
    IF id - 1 <= 0 THEN pos
    ELSE IF pos < 0 \/ pos + 4 > Len(e.md) THEN -1
    ELSE LET nblocks == U32At(e.md, e.order, pos)
         IN  IF IsBig(nblocks) \/ nblocks > Len(e.md) THEN -1
             ELSE LegacySkipBlocks(e, id - 1,
                     pos + 4 + nblocks * nbytes + ((nblocks * nbytes + 4) % 8),
                     nbytes)

\* the position get_num_fields and _get_handle_pos read the count of block
\* id from: the region start, 8 bytes discarded, the earlier blocks passed
LegacyBlockOffset(e, hdr, id, nbytes) ==
    IF RegionOffset(e, hdr) < 0 THEN -1
    ELSE LegacySkipBlocks(e, id, RegionOffset(e, hdr) + 8, nbytes)

\* get_num_fields(type1_id, type2_id)
LegacyGetNumFields(e, type1_id, type2_id) ==
    IF LegacyObjTypeRegion(type1_id, type2_id)[1] = 0 THEN None
    ELSE LET pos == LegacyBlockOffset(e, LegacyObjTypeRegion(type1_id, type2_id)[2],
                                      LegacyObjTypeRegion(type1_id, type2_id)[1], 12)
         IN  IF pos < 0 \/ pos + 4 > Len(e.md) THEN Error("struct.error", "unpack")
             ELSE Words(<<U32At(e.md, e.order, pos)>>)

\* _get_handle_pos(obj_dep_id): the position the stream is left at
LegacyGetHandlePos(e, obj_dep_id) ==
    LET pos == LegacyBlockOffset(e, 24, obj_dep_id, 4)
    IN  IF pos < 0 THEN Error("struct.error", "unpack") ELSE Words(<<pos>>)

-----------------------------------------------------------------------------
(* The loader: src/readmat/readmat.py:467-519.                              *)
(* The primitive reader's variable map is the sequence of its entries       *)
(* <<name, value>> in insertion order.                                      *)

S_function_workspace == <<95, 95, 102, 119, 95, 95>>

\* an array of OPAQUE_DTYPE: data[0]["object_metadata"] is metadata
Opaque(metadata) == [kind |-> "opaque", object_metadata |-> metadata]

\* the names of a variable map, in order
VarNames(mdict) == [i \in DOMAIN mdict |-> mdict[i][1]]

\* mdict as a mapping
AsMap(mdict) ==
    [k \in Range(VarNames(mdict)) |->
        mdict[CHOOSE i \in DOMAIN mdict : mdict[i][1] = k][2]]

\* mdict without the key
Popped(mdict, key) ==
    LET keep == {i \in DOMAIN mdict : mdict[i][1] # key}
        Nth[k \in 0..Len(mdict)] ==
            IF k = 0 THEN 0
            ELSE CHOOSE i \in keep : i > Nth[k - 1] /\ \A j \in keep : j > Nth[k - 1] => i <= j
    IN  [k \in 1..Cardinality(keep) |-> mdict[Nth[k]]]

\* get_object_metadata(data): <<object_id>> and dims
GetObjectMetadata(data) ==
    LET metadata == data.object_metadata
    IN  IF metadata.kind = "u32"
        THEN IF Len(metadata.shape) # 2 \/ Size(metadata) = 0
             THEN Error("IndexError", "metadata")
             ELSE IF At0(metadata, 0) # MAGIC
             THEN Error("ValueError", "Invalid object reference")
             ELSE IF metadata.shape[1] < 2 THEN Error("IndexError", "metadata")
             ELSE [kind |-> "words",
                   w |-> <<NatOf(At0(metadata, metadata.shape[1] - 2))>>,
                   dims |-> Col0(metadata, 2, 2 + NatOf(At0(metadata, 1)))]
        ELSE IF metadata.kind = "struct"
        THEN IF FieldPos(metadata, S_EnumerationInstanceTag) # 0
             THEN Error("TypeError", "EnumerationInstances is not supported currently")
             ELSE Error("TypeError", "Unknown metadata format")
        ELSE Error("TypeError", "Unknown metadata format")

\* the loop over mdict.items() (lines 506-517), from the i-th entry on;
\* out is mdict as assigned so far
RECURSIVE LoadLoop(_, _, _, _)
LoadLoop(e, mdict, i, out) ==
    IF i > Len(mdict) THEN Dict(out)
    ELSE IF mdict[i][2].kind # "opaque" THEN LoadLoop(e, mdict, i + 1, out)
    ELSE LET md == GetObjectMetadata(mdict[i][2])
         IN  IF IsError(md) THEN md
             ELSE LET obj_array == LegacyReadObjectArrays(e, md.w[1], md.dims)
                  IN  IF IsError(obj_array) THEN obj_array
                      ELSE LoadLoop(e, mdict, i + 1, Put(out, mdict[i][1], obj_array))

\* load_from_mat with the test of a missing subsystem left out
LoadFromMat_NoEarlyReturn(mdict, order, raw) ==
    IF S_function_workspace \in Range(VarNames(mdict))
    THEN LoadLoop(Env(AsMap(mdict)[S_function_workspace].b, order, <<>>, raw),
                  Popped(mdict, S_function_workspace), 1,
                  AsMap(Popped(mdict, S_function_workspace)))
    ELSE LoadLoop(Env(Zeros(64), order, <<>>, raw), mdict, 1, AsMap(mdict))

\* load_from_mat(file_path, raw_data), mdict being loadmat(file_path)
LoadFromMat(mdict, order, raw) ==
    IF S_function_workspace \notin Range(VarNames(mdict)) THEN Dict(AsMap(mdict))
    ELSE LoadLoop(Env(AsMap(mdict)[S_function_workspace].b, order, <<>>, raw),
                  Popped(mdict, S_function_workspace), 1,
                  AsMap(Popped(mdict, S_function_workspace)))

-----------------------------------------------------------------------------
(* The string payload: src/matio/class_parser.py:91-130 (MatString.toString) *)
(* and src/matio/savemat.py:79-112 (MatFileWriter.np2string).               *)
(*                                                                          *)
(* A uint64 is the sequence <<u0, u1, u2, u3>> of its four 16-bit fields,    *)
(* least significant first; a uint64 array is [kind "u64", shape, data]     *)
(* with data in C order.  A string is the sequence of its code points; an   *)
(* array of numpy strings is [kind "strs", shape, data].                    *)

U64Arr(shape, data) == [kind |-> "u64", shape |-> shape, data |-> data]
StrArr(shape, data) == [kind |-> "strs", shape |-> shape, data |-> data]

\* the uint64 n, for 0 <= n < 65536
W(n) == <<n, 0, 0, 0>>

\* the value of a uint64 as far as it matters as a count or an extent: any
\* value of 1024 or more stands for one larger than every array of the model
WordValue(w) == IF w[2] = 0 /\ w[3] = 0 /\ w[4] = 0 /\ w[1] < 1024 THEN w[1] ELSE Huge

\* np.prod of extents, capped at Huge
RECURSIVE ProdCapped(_)
ProdCapped(s) ==
    IF s = <<>> THEN 1
    ELSE LET rest == ProdCapped(Tail(s))
         IN  IF Head(s) = 0 \/ rest = 0 THEN 0
             ELSE IF Head(s) >= Huge \/ rest >= 1048576 THEN Huge
             ELSE Min(Huge, Head(s) * rest)

\* the 16-bit units of the bytes of a uint64 as .tobytes() gives them, read
\* in the declared byte order: an array of a little-endian file lies in
\* memory least significant byte first, one of a big-endian file most
\* significant byte first
UnitsOfWord(w, order) == IF order = "<u4" THEN w ELSE <<w[4], w[3], w[2], w[1]>>

IsHighSurrogate(u) == u >= 55296 /\ u <= 56319
IsLowSurrogate(u) == u >= 56320 /\ u <= 57343

\* bytes.decode("utf-16-le" / "utf-16-be") on whole units: the code points,
\* or the UnicodeDecodeError of a surrogate without its partner
RECURSIVE Utf16Decode(_)
Utf16Decode(us) ==
    IF us = <<>> THEN Str(<<>>)
    ELSE IF IsLowSurrogate(us[1]) THEN Error("UnicodeDecodeError", "utf-16")
    ELSE IF IsHighSurrogate(us[1])
    THEN IF Len(us) < 2 \/ ~IsLowSurrogate(us[2])
         THEN Error("UnicodeDecodeError", "utf-16")
         ELSE Let(Utf16Decode(SubSeq(us, 3, Len(us))), LAMBDA rest :
              IF IsError(rest) THEN rest
              ELSE Str(<<65536 + (us[1] - 55296) * 1024 + (us[2] - 56320)>> \o rest.s))
    ELSE Let(Utf16Decode(Tail(us)), LAMBDA rest :
         IF IsError(rest) THEN rest ELSE Str(<<us[1]>> \o rest.s))

\* str.encode("utf-16-le") as 16-bit units; the strings hold no lone
\* surrogate
RECURSIVE Utf16Encode(_)
Utf16Encode(s) ==
    IF s = <<>> THEN <<>>
    ELSE (IF s[1] >= 65536
          THEN <<55296 + ((s[1] - 65536) \div 1024), 56320 + ((s[1] - 65536) % 1024)>>
          ELSE <<s[1]>>) \o Utf16Encode(Tail(s))

\* an element of a numpy array of dtype <U..: the fixed-width storage pads
\* with NULs, and reading an element drops the NULs at its end
RECURSIVE StripNuls(_)
StripNuls(s) ==
    IF s # <<>> /\ s[Len(s)] = 0 THEN StripNuls(SubSeq(s, 1, Len(s) - 1)) ELSE s

\* the loop of toString (lines 121-127) from the k-th count on: pos counts
\* 16-bit units, a slice past the end of the data is cut short
RECURSIVE DecodeStrings(_, _, _, _)
DecodeStrings(units, char_counts, k, pos) ==
    IF k > Len(char_counts) THEN [kind |-> "list", items |-> <<>>]
    ELSE Let(Utf16Decode(Slice(units, Min(pos, Len(units)),
                               Min(pos + char_counts[k], Len(units)))),
             LAMBDA extracted_string :
         IF IsError(extracted_string) THEN extracted_string
         ELSE Let(DecodeStrings(units, char_counts, k + 1,
                                Min(Huge, pos + char_counts[k])),
                  LAMBDA rest :
              IF IsError(rest) THEN rest
              ELSE [kind |-> "list", items |-> <<extracted_string.s>> \o rest.items]))

\* np.reshape(strings, shape, order="F")
ReshapeStrings(strings, shape) ==
    IF ProdCapped(shape) # Len(strings) THEN Error("ValueError", "reshape")
    ELSE StrArr(shape, ReshapeF([i \in DOMAIN strings |-> StripNuls(strings[i])], shape))

\* lines 108-129 of toString on the first row of data
ToStringRow(row, order) ==
    LET ndims       == WordValue(row[2])
        shape       == [i \in DOMAIN Slice(row, 2, 2 + ndims) |->
                           WordValue(Slice(row, 2, 2 + ndims)[i])]
        num_strings == ProdCapped(shape)
        counts      == Slice(row, Min(2 + ndims, Len(row)),
                             Min(2 + ndims + num_strings, Len(row)))
        char_counts == [i \in DOMAIN counts |-> WordValue(counts[i])]
        offset      == Min(2 + ndims + num_strings, Len(row))
        units       == Flatten([i \in 1..(Len(row) - offset) |->
                                   UnitsOfWord(row[offset + i], order)])
    IN  Let(DecodeStrings(units, char_counts, 1, 0), LAMBDA strings :
            IF IsError(strings) THEN strings
            ELSE ReshapeStrings(strings.items, shape))

\* MatString.toString(props, byte_order), data = props[0, 0].get("any",
\* np.array([])); the warning of a version other than 1 changes nothing
MatStringToString(data, order) ==
    IF ProdSeq(data.shape) = 0 THEN StrArr(<<1, 0>>, <<>>)
    ELSE IF Len(data.shape) # 2 THEN Error("IndexError", "data[0, 0]")
    ELSE IF data.shape[2] < 2 THEN Error("IndexError", "data[0, 1]")
    ELSE ToStringRow(SubSeq(data.data, 1, data.shape[2]), order)

\* the units padded with zeros to a multiple of four and packed four to a
\* uint64, the first unit in the low bits (lines 96-107)
RECURSIVE PackUnits(_)
PackUnits(us) ==
    IF us = <<>> THEN <<>>
    ELSE IF Len(us) < 4 THEN << us \o Zeros(4 - Len(us)) >>
    ELSE << SubSeq(us, 1, 4) >> \o PackUnits(SubSeq(us, 5, Len(us)))

\* MatFileWriter.np2string(arr): arr.ravel() is the data in C order, len(s)
\* the number of code points
NP2String(arr) ==
    LET header      == <<W(1), W(Len(arr.shape))>> \o [i \in DOMAIN arr.shape |-> W(arr.shape[i])]
        char_counts == [i \in DOMAIN arr.data |-> W(Len(arr.data[i]))]
        packed      == PackUnits(Flatten([i \in DOMAIN arr.data |-> Utf16Encode(arr.data[i])]))
        words       == header \o char_counts \o packed
    IN  U64Arr(<<Len(words), 1>>, words)

-----------------------------------------------------------------------------
(* Construction of the decoder: src/readmat/subsystem.py:12-48. *)

Bytes(b) == [kind |-> "bytes", b |-> b]
List(items) == [kind |-> "list", items |-> items]

\* the subsystem array handed to the constructor
SsData(has_mcos, metadata, vals, defs) ==
    [has_mcos |-> has_mcos, metadata |-> metadata, vals |-> vals, defs |-> defs]

\* toc_flag <= 1 or toc_flag > 4
TocRejected(toc_flag) == toc_flag \in {0, 1} \/ IsBig(toc_flag) \/ toc_flag > 4

\* every version has the 8 offsets of version 4
VersionOffsets_Always8(toc_flag) == 8

\* fwrap_version_offsets
VersionOffsets(toc_flag) == IF toc_flag = 2 \/ toc_flag = 3 THEN 6 ELSE 8

\* init_fields()
InitFields ==
    /\ pc = "new"
    /\ op' = "init_fields"
    /\ arg' = None
    /\ UNCHANGED <<byte_order, raw_data, ssdata>>
    /\ IF ~ssdata.has_mcos
       THEN /\ pc' = "ready"
            /\ ret' = None
            /\ UNCHANGED <<fwrap_metadata, fwrap_vals, fwrap_defaults, mcos_names>>
       ELSE
       LET md == ssdata.metadata
       IN  /\ fwrap_metadata' = Bytes(md)
           /\ IF ~CanRead(md, 0, 1)
              THEN /\ pc' = "failed"
                   /\ ret' = Error("ValueError", "frombuffer")
                   /\ UNCHANGED <<fwrap_vals, fwrap_defaults, mcos_names>>
              ELSE IF TocRejected(U32At(md, byte_order, 0))
              THEN /\ pc' = "failed"
                   /\ ret' = Error("ValueError", "Incompatible FileWrapper version")
                   /\ UNCHANGED <<fwrap_vals, fwrap_defaults, mcos_names>>
              ELSE
              /\ fwrap_vals' = List(ssdata.vals)
              /\ fwrap_defaults' = List(ssdata.defs)
              /\ IF ~CanRead(md, 8, 1)
                 THEN /\ pc' = "failed"
                      /\ ret' = Error("ValueError", "frombuffer")
                      /\ UNCHANGED mcos_names
                 ELSE LET all_names ==
                              GetFieldNames(md, byte_order,
                                            VersionOffsets(U32At(md, byte_order, 0)))
                      IN  IF \E i \in DOMAIN all_names : \E j \in DOMAIN all_names[i] :
                                 all_names[i][j] >= 128
                          THEN /\ pc' = "failed"
                               /\ ret' = Error("UnicodeDecodeError", "ascii")
                               /\ UNCHANGED mcos_names
                          ELSE /\ pc' = "ready"
                               /\ ret' = None
                               /\ mcos_names' = List(all_names)

-----------------------------------------------------------------------------
(* The inputs the decoder is run on.                                        *)

\* a reference sentinel as savemat.py:66-77 writes it
Sentinel(dims, object_ids, class_id) ==
    Column(<<MAGIC, Len(dims)>> \o dims \o object_ids \o <<class_id>>)

\* k object ids cycling through 1..m
CycleIds(k, m) == [i \in 1..k |-> ((i - 1) % m) + 1]

\* a 1x1 double
Scalar(x) == F64Arr(<<1, 1>>, <<x>>)

\* a 0x0 double
Empty == F64Arr(<<0, 0>>, <<>>)

\* a uint32 column that starts with the magic and is no reference
PlainMagic == Column(<<MAGIC, 2, 1, 1, 1>>)

\* names 1..7: a b c K H pk string
StdNames == <<S_a, S_b, S_c, S_K, S_H, S_pk, S_string>>

\* classes 1..3: K, pk.H, string
StdClasses == << <<0, 4>>, <<6, 5>>, <<0, 7>> >>

\* the objects 1..6 are the elements of the object arrays: object i has
\* a = vals[i]; object 7 holds a nested object, 8 a property of unknown
\* kind, 9 is of class pk.H, 10 is a string described by a type-1 block,
\* 11 has neither a type-1 nor a type-2 id, 12 (class pk.H) carries the
\* type-2 id of object 1
StdObjects ==
    << <<1, 0, 1, 1>>, <<1, 0, 2, 2>>, <<1, 0, 3, 3>>, <<1, 0, 4, 4>>,
       <<1, 0, 5, 5>>, <<1, 0, 6, 6>>, <<1, 0, 7, 7>>, <<1, 0, 8, 8>>,
       <<2, 0, 9, 9>>, <<3, 1, 0, 10>>, <<1, 0, 0, 11>>, <<2, 0, 1, 12>> >>

\* the objects the generated object arrays are made of
ArrayObjectIds == 1..6

StdType1 == << << <<1, 1, 1>> >> >>

StdType2 ==
    << << <<1, 1, 1>>, <<2, 2, 1>> >>,
       << <<1, 1, 2>>, <<2, 2, 0>> >>,
       << <<1, 1, 3>> >>,
       << <<1, 1, 4>> >>,
       << <<1, 1, 5>> >>,
       << <<1, 1, 6>> >>,
       << <<2, 1, 7>> >>,
       << <<1, 3, 0>> >>,
       << <<1, 2, 5>>, <<3, 1, 8>> >> >>

\* object 2 (dependency id 2) holds a handle to the object of type-2 id 1;
\* two further handle blocks, of no object: block 12 holds handles to the
\* objects of type-2 ids 2 and 1, block 13 one to type-2 id 1 and one to a
\* type-2 id that no object has
StdHandles ==
    [i \in 1..(Len(StdObjects) + 2) |->
        IF i = 2 THEN << <<1>> >>
        ELSE IF i = Len(StdObjects) + 1 THEN << <<2>>, <<1>> >>
        ELSE IF i = Len(StdObjects) + 2 THEN << <<1>>, <<Len(StdType2) + 3>> >>
        ELSE <<>>]

StdCfg(toc) ==
    [toc |-> toc, names |-> StdNames, classes |-> StdClasses, type1 |-> StdType1,
     objects |-> StdObjects, type2 |-> StdType2, handles |-> StdHandles]

\* fwrap_vals[0..8]
StdVals ==
    <<Empty, Scalar(1), Scalar(2), Scalar(3), Scalar(4), Scalar(5), Scalar(6),
      Sentinel(<<1, 1>>, <<1>>, 1),
      Cell(<<1, 2>>, <<Sentinel(<<1, 1>>, <<3>>, 1), PlainMagic>>)>>

\* fwrap_defaults[2][0..3]: class K has the defaults a = 9, c = 7
StdDefs ==
    <<Empty,
      Struct(<<1, 1>>, <<S_a, S_c>>, << <<Scalar(9), Scalar(7)>> >>),
      Empty, Empty>>

\* a small FileWrapper: one class K with one object that has b = true
MiniCfg ==
    [toc |-> 4, names |-> <<S_b, S_K>>, classes |-> << <<0, 2>> >>,
     type1 |-> <<>>, objects |-> << <<1, 0, 1, 1>> >>,
     type2 |-> << << <<1, 2, 1>> >> >>, handles |-> << <<>> >>]

MiniDefs == <<Empty, Empty>>

\* an enumeration-instance struct with the given tag
EnumStruct(tag) ==
    Struct(<<1, 1>>,
           <<S_EnumerationInstanceTag, S_ClassName, S_ValueNames, S_Values,
             S_ValueIndices, S_BuiltinClassName>>,
           << <<U32Arr(<<1, 1>>, <<tag>>), U32Arr(<<1, 1>>, <<1>>),
                U32Arr(<<1, 1>>, <<1>>),
                Cell(<<1, 1>>, <<Sentinel(<<1, 1>>, <<1>>, 1)>>),
                U32Arr(<<1, 1>>, <<0>>), U32Arr(<<1, 1>>, <<0>>)>> >>)

\* the shapes of the generated object arrays: the shapes of 2 or 3 dimensions
\* that hold each object of ArrayObjectIds at most once
DimsSet ==
    {d \in SeqsUpTo(1..MaxDim, 3) : Len(d) >= 2 /\ ProdSeq(d) <= Cardinality(ArrayObjectIds)}

ArraySentinels == {Sentinel(d, CycleIds(ProdSeq(d), Cardinality(ArrayObjectIds)), 1) : d \in DimsSet}

\* references to the single objects 7..11
ObjectSentinels ==
    {Sentinel(<<1, 1>>, <<7>>, 1), Sentinel(<<1, 1>>, <<8>>, 1),
     Sentinel(<<1, 1>>, <<9>>, 2), Sentinel(<<1, 1>>, <<10>>, 3),
     Sentinel(<<1, 1>>, <<11>>, 1), Sentinel(<<1, 1>>, <<2>>, 1)}

\* values that hold no reference at the top
PlainValues ==
    {Scalar(1), Empty, PlainMagic, Column(<<1, 2, 3>>), Dict(<<>>), Str(S_a),
     Struct(<<1, 1>>, <<S_a>>, << <<Scalar(1)>> >>),
     Struct(<<1, 1>>, <<S_EnumerationInstanceTag>>, << <<U32Arr(<<1, 1>>, <<0>>)>> >>),
     EnumStruct(0)}

\* containers that hold references
Containers ==
    {Cell(<<1, 2>>, <<Sentinel(<<1, 1>>, <<1>>, 1), Scalar(1)>>),
     Cell(<<1, 1>>, <<Cell(<<1, 1>>, <<Sentinel(<<1, 1>>, <<3>>, 1)>>)>>),
     Struct(<<1, 1>>, <<S_a, S_b>>, << <<Sentinel(<<1, 1>>, <<1>>, 1), PlainMagic>> >>),
     Cell(<<1, 1>>, <<Struct(<<1, 1>>, <<S_a>>, << <<Sentinel(<<1, 1>>, <<9>>, 2)>> >>)>>),
     Struct(<<1, 1>>, <<S_a>>, << <<Cell(<<1, 1>>, <<Sentinel(<<1, 1>>, <<3>>, 1)>>)>> >>)}

\* uint32 arrays that start with the magic: every tail of k words, as a
\* column, as a row and as a vector
TailVals == (0..MaxVal) \cup {MAGIC}

Layouts == {"column", "row", "vector"}

InLayout(layout, d) ==
    CASE layout = "column" -> Column(d)
      [] layout = "row" -> U32Arr(<<1, Len(d)>>, d)
      [] OTHER -> U32Arr(<<Len(d)>>, d)

MagicArrays(k) ==
    {InLayout(layout, <<MAGIC>> \o t) : layout \in Layouts, t \in [1..k -> TailVals]}

\* columns describing an empty object array of three dims
EmptySentinels ==
    {Column(<<MAGIC, 3>> \o d \o <<1>>) : d \in {x \in [1..3 -> 0..MaxVal] : 0 \in Range(x)}}

RefInputs(k) ==
    MagicArrays(k)
    \cup EmptySentinels
    \cup {Sentinel(d, CycleIds(ProdSeq(d), 1), 1) : d \in DimsSet}
    \cup PlainValues

-----------------------------------------------------------------------------
(* The operations.  A decoder is constructed (pc = "new"), init_fields runs *)
(* (pc = "ready", or "failed" when it raised), and one operation is called  *)
(* on it (pc = "done"): op, arg and ret record the call.                    *)

Decoder == Env(fwrap_metadata.b, byte_order, mcos_names.items, raw_data)

Tables == [vals |-> fwrap_vals.items, defs |-> fwrap_defaults.items]

Ready == pc = "ready" /\ fwrap_metadata.kind = "bytes"

\* the call o(a) returned or raised r.v and left the tables r.st; fwrap_vals
\* and fwrap_defaults are views of ssdata
Finish(o, a, r) ==
    /\ op' = o
    /\ arg' = a
    /\ ret' = r.v
    /\ fwrap_vals' = List(r.st.vals)
    /\ fwrap_defaults' = List(r.st.defs)
    /\ ssdata' = [ssdata EXCEPT !.vals = r.st.vals, !.defs = r.st.defs]
    /\ pc' = "done"
    /\ UNCHANGED <<fwrap_metadata, byte_order, raw_data, mcos_names>>

\* a call of a function that touches no table
Pure(o, a, v) == Finish(o, a, R(v, None, Tables))

FindOver(inputs) ==
    /\ Ready
    /\ \E arr \in inputs :
          Finish("find_object_reference", arr,
                 FindObjectReference(Decoder, Tables, arr, MaxDepth))

CheckOver(inputs) ==
    /\ Ready
    /\ \E arr \in inputs :
          Pure("check_object_reference", arr,
               IF IsNdarray(arr) /\ EnumTagRaises(arr) THEN Error("IndexError", "tag")
               ELSE Bool(CheckObjectReference(arr)))

ProcessOver(inputs) ==
    /\ Ready
    /\ \E arr \in inputs :
          Pure("process_res_array", arr, ProcessResArray(Decoder, arr))

McosInputs ==
    ObjectSentinels
    \cup {Sentinel(<<1, 2>>, <<1, 2>>, 1), Sentinel(<<1, 2>>, <<1, 11>>, 1),
          EnumStruct(MAGIC), EnumStruct(0),
          PlainMagic, Column(<<1, 2, 3>>), Scalar(1),
          Struct(<<1, 1>>, <<S_a>>, << <<Scalar(1)>> >>),
          Struct(<<1, 1>>, <<S_EnumerationInstanceTag>>, << <<U32Arr(<<1, 1>>, <<0>>)>> >>)}

FindObjectReferenceOp ==
    FindOver(ArraySentinels \cup ObjectSentinels \cup PlainValues \cup Containers)

ReadMcosObjectOp ==
    /\ Ready
    /\ \E metadata \in McosInputs, type_system \in {S_MCOS, S_java} :
          Finish("read_mcos_object",
                 [kind |-> "call", metadata |-> metadata, type_system |-> type_system],
                 ReadMcosObject(Decoder, Tables, metadata, type_system, MaxDepth))

ReadNormalMcosOp ==
    /\ Ready
    /\ \E metadata \in ArraySentinels \cup ObjectSentinels :
          Finish("read_normal_mcos", metadata,
                 ReadNormalMcos(Decoder, Tables, metadata, MaxDepth))

ExtractFieldsOp ==
    /\ Ready
    /\ \E type1_id \in 0..Len(StdType1), type2_id \in 0..Len(StdType2), dep_id \in 1..2 :
          Finish("extract_fields",
                 [kind |-> "ids", type1_id |-> type1_id, type2_id |-> type2_id, dep_id |-> dep_id],
                 ExtractFields(Decoder, Tables, type1_id, type2_id, dep_id, MaxDepth))

ExtractHandlesOp ==
    /\ Ready
    /\ \E dep_id \in 0..Len(StdHandles) :
          Finish("extract_handles", [kind |-> "call", dep_id |-> dep_id],
                 ExtractHandles(Decoder, Tables, dep_id, MaxDepth))

GetHandleClassInstanceOp ==
    /\ Ready
    /\ \E type2_id \in 0..(Len(StdType2) + 3) :
          Pure("get_handle_class_instance", [kind |-> "call", type2_id |-> type2_id],
               GetHandleClassInstance(Decoder, type2_id))

\* ValueIndices of the shapes 1 x 1, 1 x 2, 2 x 1 and 2 x 2 into three values
EnumShapes == {<<1, 1>>, <<1, 2>>, <<2, 1>>, <<2, 2>>}

\* an enumeration-instance struct: ValueIndices of shape sh holds the
\* (0-based) indices 0, 1, 2, 0 in row-major order, ValueNames the names 1, 2,
\* ... as a column, Values the references to the objects 1, 2, 3 or nothing
EnumMetadata(sh, with_values) ==
    Struct(<<1, 1>>,
           <<S_EnumerationInstanceTag, S_ClassName, S_ValueNames, S_Values,
             S_ValueIndices, S_BuiltinClassName>>,
           << <<U32Arr(<<1, 1>>, <<MAGIC>>), U32Arr(<<1, 1>>, <<1>>),
                U32Arr(<<ProdSeq(sh), 1>>, [c \in 1..ProdSeq(sh) |-> ((c - 1) % 3) + 1]),
                IF with_values
                THEN Cell(<<3, 1>>, [i \in 1..3 |-> Sentinel(<<1, 1>>, <<i>>, 1)])
                ELSE Cell(<<0, 0>>, <<>>),
                U32Arr(sh, [c \in 1..ProdSeq(sh) |-> (c - 1) % 3]),
                U32Arr(<<1, 1>>, <<0>>)>> >>)

ReadMcosEnumerationOp ==
    /\ Ready
    /\ \E sh \in EnumShapes, with_values \in BOOLEAN, k \in {"C", "F"} :
          Finish("read_mcos_enumeration",
                 [kind |-> "call", metadata |-> EnumMetadata(sh, with_values), nditer |-> k],
                 ReadMcosEnumeration(WithNditer(Decoder, k), Tables,
                                     EnumMetadata(sh, with_values), MaxDepth))

ConvertInputs == {Cell(<<1, 1>>, <<Dict(<<>>)>>), Cell(<<1, 2>>, <<Dict(<<>>), Dict(<<>>)>>)}

ConvertToObjectOp ==
    /\ Ready
    /\ \E props \in ConvertInputs, class_name \in ClassToFunction \cup {S_K, S_Map, S_java},
          raw \in BOOLEAN, add_table_attrs \in BOOLEAN :
          Pure("convert_to_object",
               [kind |-> "call", props |-> props, class_name |-> class_name, raw |-> raw,
                add_table_attrs |-> add_table_attrs],
               ConvertToObject(props, class_name, byte_order, raw, add_table_attrs))

New ==
    /\ pc = "new"
    /\ op = "none"
    /\ arg = None
    /\ ret = None
    /\ fwrap_metadata = None
    /\ fwrap_vals = None
    /\ fwrap_defaults = None
    /\ mcos_names = None

Init ==
    /\ New
    /\ byte_order \in {"<u4", ">u4"}
    /\ raw_data \in BOOLEAN
    /\ ssdata \in {SsData(TRUE, BuildMetadata(StdCfg(toc), byte_order), StdVals, StdDefs) :
                      toc \in 0..MaxToc}
                  \cup {SsData(FALSE, <<>>, <<>>, <<>>)}

Next ==
    \/ InitFields
    \/ FindObjectReferenceOp
    \/ ReadMcosObjectOp
    \/ ReadNormalMcosOp
    \/ ExtractFieldsOp
    \/ ExtractHandlesOp
    \/ GetHandleClassInstanceOp
    \/ ReadMcosEnumerationOp
    \/ ConvertToObjectOp

Spec == Init /\ [][Next]_vars

(* Reference detection on its own: a decoder of the small FileWrapper and one *)
(* call of the check, of the walker or of the earlier reader's walker.        *)

CheckObjectReferenceOp == \E k \in 0..MaxTail : CheckOver(RefInputs(k))

WalkOp == \E k \in 0..MaxTail : FindOver(RefInputs(k))

ProcessResArrayOp == \E k \in 0..MaxTail : ProcessOver(RefInputs(k))

InitRef ==
    /\ New
    /\ byte_order = "<u4"
    /\ raw_data = TRUE
    /\ ssdata = SsData(TRUE, BuildMetadata(MiniCfg, byte_order), <<Empty>>, MiniDefs)

NextRef ==
    \/ InitFields
    \/ CheckObjectReferenceOp
    \/ WalkOp
    \/ ProcessResArrayOp

SpecRef == InitRef /\ [][NextRef]_vars


-----------------------------------------------------------------------------
(* The block readers on FileWrapper blobs whose property and handle regions *)
(* start with any word, not only the zero that is written.                  *)

\* the buffer with the u32 at off replaced by w
WithWordAt(md, order, off, w) ==
    [i \in DOMAIN md |->
        IF i \in (off + 1)..(off + 4) THEN EncU32(w, order)[i - off] ELSE md[i]]

\* the blob of StdCfg(toc) with w as the first word of the region whose
\* offset is stored at byte hdr of the header
BlobWithRegionWord(toc, order, hdr, w) ==
    WithWordAt(BuildMetadata(StdCfg(toc), order), order,
               U32At(BuildMetadata(StdCfg(toc), order), order, hdr), w)

\* the regions of variable-length blocks: <<header offset, bytes per entry>>
BlockRegions == {<<12, 12>>, <<20, 12>>, <<24, 4>>}

GetIdsOp ==
    /\ Ready
    /\ \E region \in BlockRegions, id \in 0..(Len(StdType2) + 1) :
          Pure("get_ids",
               [kind |-> "call", id |-> id, hdr |-> region[1], nbytes |-> region[2]],
               GetIds(Decoder, id, RegionOffset(Decoder, region[1]), region[2]))

GetNumFieldsOp ==
    /\ Ready
    /\ \E type1_id \in 0..Len(StdType1), type2_id \in 0..Len(StdType2) :
          Pure("get_num_fields",
               [kind |-> "ids", type1_id |-> type1_id, type2_id |-> type2_id],
               LegacyGetNumFields(Decoder, type1_id, type2_id))

GetHandlePosOp ==
    /\ Ready
    /\ \E obj_dep_id \in 0..Len(StdObjects) :
          Pure("_get_handle_pos", [kind |-> "call", obj_dep_id |-> obj_dep_id],
               LegacyGetHandlePos(Decoder, obj_dep_id))

InitIds ==
    /\ New
    /\ byte_order \in {"<u4", ">u4"}
    /\ raw_data = TRUE
    /\ ssdata \in {SsData(TRUE, BlobWithRegionWord(toc, byte_order, region[1], w),
                          StdVals, StdDefs) :
                      toc \in 2..4, region \in BlockRegions, w \in 0..MaxVal}

NextIds ==
    \/ InitFields
    \/ GetIdsOp
    \/ GetNumFieldsOp
    \/ GetHandlePosOp

SpecIds == InitIds /\ [][NextIds]_vars

-----------------------------------------------------------------------------
(* The loader on files of up to two variables, with and without a           *)
(* subsystem.                                                               *)

\* values of top-level variables: a double, a string of the header, a cell
\* that holds a reference, and opaque placeholders of one object, of the
\* objects 2 and 3, of the objects 3 and 1, of an enumeration instance and of
\* a column that does not start with the magic
LoadValues ==
    {Scalar(1), Str(S_a), Cell(<<1, 1>>, <<Sentinel(<<1, 1>>, <<1>>, 1)>>),
     Opaque(Sentinel(<<1, 1>>, <<1>>, 1)), Opaque(Sentinel(<<1, 2>>, <<2, 3>>, 1)),
     Opaque(Sentinel(<<1, 2>>, <<3, 1>>, 1)), Opaque(EnumStruct(MAGIC)),
     Opaque(Column(<<0, 2, 1, 1, 1, 1>>))}

\* the variable maps the primitive reader returns: the variables a and b in
\* either order, followed by the subsystem when the file has one
LoadFiles(order) ==
    LET maps == {<<>>} \cup {<< <<S_a, v>> >> : v \in LoadValues}
                  \cup {<< <<S_a, v>>, <<S_b, w>> >> : v \in LoadValues, w \in LoadValues}
                  \cup {<< <<S_b, v>>, <<S_a, w>> >> : v \in LoadValues, w \in LoadValues}
    IN  maps \cup {Append(m, <<S_function_workspace,
                              Bytes(BuildMetadata(StdCfg(4), order))>>) : m \in maps}

\* load_from_mat; the decoder it builds, when it builds one, holds the
\* subsystem
LoadFromMatOp ==
    /\ pc = "new"
    /\ \E mdict \in LoadFiles(byte_order) :
          /\ op' = "load_from_mat"
          /\ arg' = [kind |-> "call", mdict |-> mdict]
          /\ ret' = LoadFromMat(mdict, byte_order, raw_data)
          /\ fwrap_metadata' =
                IF S_function_workspace \in Range(VarNames(mdict))
                THEN AsMap(mdict)[S_function_workspace]
                ELSE fwrap_metadata
          /\ pc' = "done"
          /\ UNCHANGED <<byte_order, raw_data, ssdata, fwrap_vals, fwrap_defaults,
                         mcos_names>>

InitLoad ==
    /\ New
    /\ byte_order \in {"<u4", ">u4"}
    /\ raw_data \in BOOLEAN
    /\ ssdata = SsData(FALSE, <<>>, <<>>, <<>>)

NextLoad == LoadFromMatOp

SpecLoad == InitLoad /\ [][NextLoad]_vars

-----------------------------------------------------------------------------
(* Several resolutions on one decoder: each works on the tables as the      *)
(* resolutions before it left them.                                         *)

\* the number of resolutions on one decoder
MaxResolutions == 3

\* the default properties per class id: those of StdDefs, and for class pk.H
\* a property b whose default is a reference to object 1
SharedDefs ==
    [StdDefs EXCEPT ![3] = Struct(<<1, 1>>, <<S_b>>, << <<Sentinel(<<1, 1>>, <<1>>, 1)>> >>)]

\* references to object 9 (a property that is a cell holding a reference, a
\* default that is a reference), to object 7 (a property that is a
\* reference), to object 2 (a handle), to the objects 1 and 2 as a 1 x 2
\* array, and a cell that holds a reference to object 9
ResolveRefs ==
    {Sentinel(<<1, 1>>, <<9>>, 2), Sentinel(<<1, 1>>, <<7>>, 1),
     Sentinel(<<1, 1>>, <<2>>, 1), Sentinel(<<1, 2>>, <<1, 2>>, 1),
     Cell(<<1, 1>>, <<Sentinel(<<1, 1>>, <<9>>, 2)>>)}

\* one more find_object_reference on the decoder; arg and ret list the
\* references resolved so far and what was returned for each
ResolveOp ==
    /\ pc \in {"ready", "resolving"}
    /\ fwrap_metadata.kind = "bytes"
    /\ pc = "resolving" => Len(arg.items) < MaxResolutions
    /\ \E ref \in ResolveRefs :
          LET r == FindObjectReference(Decoder, Tables, ref, MaxDepth)
          IN  /\ op' = "resolve"
              /\ arg' = List((IF pc = "resolving" THEN arg.items ELSE <<>>) \o <<ref>>)
              /\ ret' = List((IF pc = "resolving" THEN ret.items ELSE <<>>) \o <<r.v>>)
              /\ fwrap_vals' = List(r.st.vals)
              /\ fwrap_defaults' = List(r.st.defs)
              /\ ssdata' = [ssdata EXCEPT !.vals = r.st.vals, !.defs = r.st.defs]
              /\ pc' = "resolving"
              /\ UNCHANGED <<fwrap_metadata, byte_order, raw_data, mcos_names>>

\* the entries <<field_name_idx, field_kind, field_value>> extract_fields
\* walks for object_id (lines 302, 255-269); none when a lookup raises
PropertyBlock(e, object_id) ==
    Let(GetObjectDependencies(e, object_id), LAMBDA deps :
        IF IsError(deps) \/ ((deps.w[2] = 0) = (deps.w[3] = 0)) THEN <<>>
        ELSE Let(GetIds(e, IF deps.w[2] = 0 THEN deps.w[3] ELSE deps.w[2],
                        RegionOffset(e, IF deps.w[2] = 0 THEN 20 ELSE 12), 12),
                 LAMBDA ids : IF IsError(ids) THEN <<>> ELSE ids.rows))

\* the properties of object_id that hold the very array the table holds, as
\* name index :> field_value: line 272 hands self.fwrap_vals[field_value] to
\* the walker, which returns the array it was given (line 245) unless the
\* array is a reference (line 222), and line 273 stores what it returned
HeldArrays(e, st, object_id) ==
    Let(PropertyBlock(e, object_id), LAMBDA rows :
    Let({i \in DOMAIN rows :
            /\ \A j \in DOMAIN rows : rows[j][1] = rows[i][1] => j <= i
            /\ rows[i][2] = 1
            /\ rows[i][3] \in 0..(Len(st.vals) - 1)
            /\ IsNdarray(st.vals[rows[i][3] + 1])
            /\ ~CheckObjectReference(st.vals[rows[i][3] + 1])},
        LAMBDA held :
    [nm \in {rows[i][1] : i \in held} |->
        rows[CHOOSE i \in held : rows[i][1] = nm][3]]))

\* the property map m of object_id as it reads once the table array
\* field_value has become new: the properties that hold that array show new
SeenThrough(e, st, object_id, m, field_value, new) ==
    Let(HeldArrays(e, st, object_id), LAMBDA held :
    [x \in DOMAIN m |->
        IF \E nm \in DOMAIN held : held[nm] = field_value /\ NameAt(e, nm) = Str(x)
        THEN new ELSE m[x]])

\* what the walker returned for ref, res, as it reads once the table array
\* field_value has become new.  Object 9 alone has a property that holds a
\* cell of the table, and no property, handle or default of another object
\* leads to object 9, so the results to look into are the resolved references
\* and the cells of references
RECURSIVE Aliased(_, _, _, _, _, _)
Aliased(e, st, ref, res, field_value, new) ==
    IF ~IsNdarray(ref) \/ IsError(res) THEN res
    ELSE IF ref.kind = "cell" /\ res.kind = "cell"
    THEN [res EXCEPT !.data =
            [i \in DOMAIN res.data |->
                Aliased(e, st, ref.data[i], res.data[i], field_value, new)]]
    ELSE IF ref.kind = "u32" /\ res.kind = "object" /\ res.Props.kind = "cell"
    THEN [res EXCEPT !.Props.data =
            [c \in DOMAIN res.Props.data |->
                Dict(SeenThrough(e, st, ref.data[2 + ref.data[2] + c],
                                 res.Props.data[c].map, field_value, new))]]
    ELSE IF ref.kind = "u32" /\ res.kind = "object" /\ res.Props.kind = "object"
            /\ res.Props.Props.kind = "cell"
    THEN [res EXCEPT !.Props.Props.data =
            [c \in DOMAIN res.Props.Props.data |->
                Dict(SeenThrough(e, st, ref.data[2 + ref.data[2] + c],
                                 res.Props.Props.data[c].map, field_value, new))]]
    ELSE res

\* the caller of the decoder writes into a result it was given: in result
\* target, a resolved reference to one object, it takes the property name_idx,
\* which holds a cell whose first element is a resolved object, and assigns
\* to that object's "_Class" key.  The cell is the array fwrap_vals holds
\* and the object is the one line 229 stored in it, so the table and every
\* result that holds the array read the new value
ModifyNestedOp ==
    /\ pc = "resolving"
    /\ \E target \in DOMAIN ret.items :
          /\ arg.items[target].kind = "u32"
          /\ ret.items[target].kind = "object"
          /\ Len(arg.items[target].data) = arg.items[target].data[2] + 4
          /\ \E held \in {HeldArrays(Decoder, Tables,
                                     arg.items[target].data[3 + arg.items[target].data[2]])} :
             \E nm \in DOMAIN held :
             \E old \in {fwrap_vals.items[held[nm] + 1]} :
                /\ old.kind = "cell"
                /\ Len(old.data) >= 1
                /\ old.data[1].kind = "object"
                /\ \E new \in {[old EXCEPT !.data[1].Class = S_java]} :
                    /\ op' = "modify"
                    /\ arg' = [kind |-> "call", target |-> target, refs |-> arg.items,
                               before |-> ret.items, field_value |-> held[nm]]
                    /\ ret' = List([j \in DOMAIN ret.items |->
                                      Aliased(Decoder, Tables, arg.items[j], ret.items[j],
                                              held[nm], new)])
                    /\ fwrap_vals' = [fwrap_vals EXCEPT !.items[held[nm] + 1] = new]
                    /\ ssdata' = [ssdata EXCEPT !.vals[held[nm] + 1] = new]
                    /\ pc' = "done"
                    /\ UNCHANGED <<fwrap_metadata, byte_order, raw_data, fwrap_defaults,
                                   mcos_names>>

InitShared ==
    /\ New
    /\ byte_order \in {"<u4", ">u4"}
    /\ raw_data \in BOOLEAN
    /\ ssdata = SsData(TRUE, BuildMetadata(StdCfg(4), byte_order), StdVals, SharedDefs)

NextShared ==
    \/ InitFields
    \/ ResolveOp
    \/ ModifyNestedOp

SpecShared == InitShared /\ [][NextShared]_vars

-----------------------------------------------------------------------------
(* The resolver on subsystems whose objects lead back to themselves.        *)

\* class K has a default property b whose value is a reference to object 1,
\* an object of class K
DefaultsCycle ==
    [StdDefs EXCEPT ![2] = Struct(<<1, 1>>, <<S_b>>, << <<Sentinel(<<1, 1>>, <<1>>, 1)>> >>)]

\* property value 7, the property b of object 7, is a reference to object 7
PropertyCycle == [StdVals EXCEPT ![8] = Sentinel(<<1, 1>>, <<7>>, 1)]

\* the handle block of object 2 names the type-2 id of object 2
HandleCycle == [StdHandles EXCEPT ![2] = << <<2>> >>]

\* the subsystem with the cycle named: "defaults", "property", "handle", or
\* "none" for the subsystem without one
CycleData(cycle, order) ==
    [has_mcos |-> TRUE,
     metadata |-> BuildMetadata([StdCfg(4) EXCEPT
                                    !.handles = IF cycle = "handle" THEN HandleCycle
                                                ELSE StdHandles],
                                order),
     vals     |-> IF cycle = "property" THEN PropertyCycle ELSE StdVals,
     defs     |-> IF cycle = "defaults" THEN DefaultsCycle ELSE StdDefs,
     cycle    |-> cycle]

Cycles == {"none", "defaults", "property", "handle"}

\* references to the objects 1, 2, 7 and 9, to the objects 1 and 2 as an
\* array, and containers of references
CycleRefs ==
    {Sentinel(<<1, 1>>, <<1>>, 1), Sentinel(<<1, 1>>, <<2>>, 1),
     Sentinel(<<1, 1>>, <<7>>, 1), Sentinel(<<1, 1>>, <<9>>, 2),
     Sentinel(<<1, 2>>, <<1, 2>>, 1),
     Cell(<<1, 1>>, <<Sentinel(<<1, 1>>, <<7>>, 1)>>),
     Struct(<<1, 1>>, <<S_a>>, << <<Sentinel(<<1, 1>>, <<2>>, 1)>> >>)}

\* the nesting of read_object_arrays calls followed on these subsystems before
\* the model stops with a RecursionError: the objects of the subsystem
\* without a cycle nest two deep
CycleDepth == 2

ResolveCycleOp ==
    /\ Ready
    /\ \E arr \in CycleRefs :
          Finish("find_object_reference", arr,
                 FindObjectReference(Decoder, Tables, arr, CycleDepth))

InitCycle ==
    /\ New
    /\ byte_order \in {"<u4", ">u4"}
    /\ raw_data \in BOOLEAN
    /\ ssdata \in {CycleData(cycle, byte_order) : cycle \in Cycles}

NextCycle ==
    \/ InitFields
    \/ ResolveCycleOp

SpecCycle == InitCycle /\ [][NextCycle]_vars

-----------------------------------------------------------------------------
(* The string converter on its own: payloads as a file holds them, arrays   *)
(* of strings as a caller hands them to the writer.                          *)

\* the largest number of strings of a payload
MaxStrings == 4

\* the strings of the payloads as 16-bit units: empty, one letter, a letter
\* followed by a NUL, one character outside the basic plane
UnitPool == {<<>>, <<97>>, <<98, 0>>, <<55357, 56832>>}

\* the strings of the arrays handed to the writer, as code points
TextPool == {<<>>, <<97>>, <<97, 98>>, <<128512>>}

StringDims == {d \in (1..MaxStrings) \X (1..MaxStrings) : d[1] * d[2] <= MaxStrings}

\* the units in stream order, four to a uint64 of a file of the byte order
StreamWords(us, order) ==
    [i \in DOMAIN PackUnits(us) |->
        IF order = "<u4" THEN PackUnits(us)[i]
        ELSE <<PackUnits(us)[i][4], PackUnits(us)[i][3],
               PackUnits(us)[i][2], PackUnits(us)[i][1]>>]

\* the words of the payload {version, ndims, dims, char_counts} followed by
\* the packed units of strs, the strings in column-major order
PayloadWords(version, dims, strs, order) ==
    <<W(version), W(Len(dims))>> \o [i \in DOMAIN dims |-> W(dims[i])]
        \o [k \in DOMAIN strs |-> W(Len(strs[k]))]
        \o StreamWords(Flatten(strs), order)

\* payloads that are not as the layout has them: no "any" property, the
\* words as a column, the packed data cut short, a surrogate alone
OddPayloads(order) ==
    {U64Arr(<<0>>, <<>>),
     U64Arr(<<5, 1>>, PayloadWords(1, <<1, 1>>, << <<97>> >>, order)),
     U64Arr(<<1, 5>>, PayloadWords(1, <<1, 2>>, << <<97>>, <<97, 98, 97, 98>> >>, order)),
     U64Arr(<<1, 5>>, PayloadWords(1, <<1, 1>>, << <<55357>> >>, order)),
     U64Arr(<<1, 6>>, PayloadWords(1, <<1, 1, 1>>, << <<97>> >>, order)),
     U64Arr(<<1, 1>>, <<W(1)>>)}

ToStringOp ==
    /\ pc = "new"
    /\ \/ \E version \in 1..2, dims \in StringDims :
            \E strs \in [1..(dims[1] * dims[2]) -> UnitPool] :
               LET words == PayloadWords(version, dims, strs, byte_order)
                   data  == U64Arr(<<1, Len(words)>>, words)
               IN  /\ arg' = [kind |-> "call", data |-> data, version |-> version,
                              dims |-> dims, strs |-> strs]
                   /\ ret' = MatStringToString(data, byte_order)
       \/ \E data \in OddPayloads(byte_order) :
               /\ arg' = [kind |-> "call", data |-> data, version |-> 0,
                          dims |-> <<>>, strs |-> <<>>]
               /\ ret' = MatStringToString(data, byte_order)
    /\ op' = "toString"
    /\ pc' = "done"
    /\ UNCHANGED <<fwrap_metadata, byte_order, raw_data, fwrap_vals, fwrap_defaults,
                   mcos_names, ssdata>>

\* np2string(arr) on an array of strings
NP2StringOp ==
    /\ pc = "new"
    /\ byte_order = "<u4"
    /\ \E dims \in StringDims :
          \E strs \in [1..(dims[1] * dims[2]) -> TextPool] :
             /\ arg' = StrArr(dims, strs)
             /\ ret' = NP2String(StrArr(dims, strs))
    /\ op' = "np2string"
    /\ pc' = "written"
    /\ UNCHANGED <<fwrap_metadata, byte_order, raw_data, fwrap_vals, fwrap_defaults,
                   mcos_names, ssdata>>

\* toString, little-endian, on the payload np2string returned
ReadBackOp ==
    /\ pc = "written"
    /\ op' = "read_back"
    /\ arg' = [kind |-> "call", arr |-> arg, data |-> ret]
    /\ ret' = MatStringToString(ret, "<u4")
    /\ pc' = "done"
    /\ UNCHANGED <<fwrap_metadata, byte_order, raw_data, fwrap_vals, fwrap_defaults,
                   mcos_names, ssdata>>

InitString ==
    /\ New
    /\ byte_order \in {"<u4", ">u4"}
    /\ raw_data = TRUE
    /\ ssdata = SsData(FALSE, <<>>, <<>>, <<>>)

NextString ==
    \/ ToStringOp
    \/ NP2StringOp
    \/ ReadBackOp

SpecString == InitString /\ [][NextString]_vars

-----------------------------------------------------------------------------
(* Properties of reference detection, checked under SpecRef.                *)

\* the number of object ids the n dims after the header announce, as far as
\* it matters against a length of len words: len + 1 stands for any larger
\* count
NumObjectIds(d, n, len) ==
    IF \E i \in 1..n : d[2 + i] = 0 THEN 0
    ELSE IF \E i \in 1..n : d[2 + i] < 0 \/ d[2 + i] > len THEN len + 1
    ELSE Min(len + 1, ProdSeq([i \in 1..n |-> d[2 + i]]))

\* the layout of a reference: an N x 1 column, 0xDD000000 first, then ndims,
\* the dims, prod(dims) object ids and the class id, N words in all
RefLayout(a) ==
    /\ a.kind = "u32"
    /\ Len(a.shape) = 2
    /\ a.shape[2] = 1
    /\ Len(a.data) >= 2
    /\ a.data[1] = MAGIC
    /\ a.data[2] \in 0..(Len(a.data) - 3)
    /\ Len(a.data) = NumObjectIds(a.data, a.data[2], Len(a.data)) + a.data[2] + 3

\* a uint32 array that begins with 0xDD000000
MagicLeading(a) == a.kind = "u32" /\ Len(a.data) >= 1 /\ a.data[1] = MAGIC

\* C1: check_object_reference accepts a uint32 array only if it is an N x 1
\* column that starts with 0xDD000000 and has prod(dims) + ndims + 3 words,
\* and find_object_reference returns unchanged every uint32 array that starts
\* with 0xDD000000 and is not of this layout.
C1_AcceptsOnlyLayout ==
    /\ (op = "check_object_reference" /\ arg.kind = "u32" /\ ret = Bool(TRUE))
          => RefLayout(arg)
    /\ (op = "find_object_reference" /\ MagicLeading(arg) /\ ~RefLayout(arg))
          => ret = arg

\* a column of six words that passes every test but the length equation
\* (dims (1, 2) ask for seven words) went through the walker and came back
C1_Witness ==
    /\ op = "find_object_reference"
    /\ arg = Column(<<MAGIC, 2, 1, 2, 1, 1>>)
    /\ ~RefLayout(arg)
    /\ ret = arg

\* C2: process_res_array of readmat.py returns unchanged every uint32 array
\* that starts with 0xDD000000 and whose length does not satisfy
\* object ids + ndims + 3 = length.
C2_LegacyReturnsUnchanged ==
    (op = "process_res_array" /\ MagicLeading(arg) /\ ~RefLayout(arg))
       => ret = arg

\* a well-formed reference: the layout, with ndims >= 2 and every dim, every
\* object id and the class id >= 1
WellFormed(a) ==
    /\ RefLayout(a)
    /\ a.data[2] >= 2
    /\ \A i \in 3..Len(a.data) : a.data[i] # 0

\* C3: check_object_reference accepts every well-formed reference, however
\* many of its dims are greater than 1.
C3_AcceptsWellFormed ==
    (op = "check_object_reference" /\ WellFormed(arg)) => ret = Bool(TRUE)

\* the reference of a 2 x 3 object array was accepted
C3_Witness ==
    /\ op = "check_object_reference"
    /\ arg = Sentinel(<<2, 3>>, <<1, 1, 1, 1, 1, 1>>, 1)
    /\ WellFormed(arg)
    /\ ret = Bool(TRUE)

-----------------------------------------------------------------------------
(* Properties of the object resolver, checked under Spec.                   *)

\* the dims, the object ids and the class id a well-formed reference holds
RefDims(a) == [i \in 1..a.data[2] |-> a.data[2 + i]]
RefIds(a) == [i \in 1..(Len(a.data) - a.data[2] - 3) |-> a.data[2 + a.data[2] + i]]
RefClass(a) == a.data[Len(a.data)]

\* no class converter applies to an object of class class_name
NoConverter(class_name) == raw_data \/ class_name \notin ClassToFunction

\* C4: a well-formed reference that read_normal_mcos resolves with no class
\* converter applied gives {_Class, _Props} with _Class a string and _Props
\* an array of property maps of the shape dims, one element per object id.
C4_PropsShapedAsDims ==
    (op = "read_normal_mcos" /\ WellFormed(arg) /\ ret.kind = "object"
        /\ NoConverter(ret.Class))
       => /\ ret.Class \in Seq(Nat)
          /\ ret.Props.kind = "cell"
          /\ ret.Props.shape = RefDims(arg)
          /\ Len(ret.Props.data) = Len(RefIds(arg))
          /\ \A i \in DOMAIN ret.Props.data : ret.Props.data[i].kind = "dict"

\* the array of property maps inside a resolved object
PropsArrayOf(r) == IF r.Props.kind = "object" THEN r.Props.Props ELSE r.Props

\* the property map extract_fields gives for an object of the standard tables
InstanceProps(object_id) ==
    Let(GetObjectDependencies(Decoder, object_id), LAMBDA deps :
        ExtractFields(Decoder, [vals |-> StdVals, defs |-> StdDefs],
                      deps.w[2], deps.w[3], deps.w[4], MaxDepth - 1).v.map)

\* m holds every property of the map inst with its value
Keeps(m, inst) == \A x \in DOMAIN inst : x \in DOMAIN m /\ m[x] = inst[x]

\* C5: the element of _Props at column-major linear position k is the
\* property map extracted for object_ids[k].
C5_ColumnMajorPlacement ==
    (op = "read_normal_mcos" /\ WellFormed(arg) /\ ret.kind = "object"
        /\ PropsArrayOf(ret).kind = "cell")
       => \A c \in DOMAIN PropsArrayOf(ret).data :
             Keeps(PropsArrayOf(ret).data[c].map,
                   InstanceProps(RefIds(arg)[RavelF(UnravelC(c - 1, RefDims(arg)),
                                                    RefDims(arg)) + 1]))

\* m is inst laid over the defaults d: every default name is in m, with the
\* value of inst when inst has the name and the default value otherwise
OverDefaults(m, inst, d) ==
    /\ Keeps(m, inst)
    /\ d.kind = "struct" =>
          \A j \in DOMAIN d.names :
             /\ d.names[j] \in DOMAIN m
             /\ d.names[j] \notin DOMAIN inst => m[d.names[j]] = d.data[1][j]

\* C6: every element of a resolved object array holds every property name of
\* the class defaults; a property set on the instance keeps the instance
\* value, a property the instance lacks takes the default value.
C6_DefaultsAreBaseLayer ==
    (op = "read_normal_mcos" /\ WellFormed(arg) /\ ret.kind = "object"
        /\ PropsArrayOf(ret).kind = "cell")
       => \A c \in DOMAIN PropsArrayOf(ret).data :
             \E k \in DOMAIN RefIds(arg) :
                OverDefaults(PropsArrayOf(ret).data[c].map,
                             InstanceProps(RefIds(arg)[k]),
                             StdDefs[RefClass(arg) + 1])

\* object 1 of class K, with a and b set on the instance and the defaults
\* a = 9 and c = 7, came back with its own a and the default c
C6_Witness ==
    /\ op = "read_normal_mcos"
    /\ raw_data
    /\ arg = Sentinel(<<1, 1>>, <<1>>, 1)
    /\ ret.kind = "object"
    /\ ret.Props.kind = "cell"
    /\ ret.Props.data[1].map[S_a] = Scalar(1)
    /\ ret.Props.data[1].map[S_c] = Scalar(7)

\* a class converter produced r
ConverterRan(r) ==
    r.kind = "converted" \/ (r.kind = "object" /\ r.Props.kind = "converted")

\* C7: a class converter runs only when raw_data is false and the class is in
\* the converter table; with raw_data true, or a class outside the table,
\* convert_to_object returns exactly {_Class: class_name, _Props: props}, and
\* the resolver applies no converter when the decoder's raw_data is true.
C7_ConverterOnlyWhenEnabled ==
    /\ op = "convert_to_object" =>
          /\ (arg.raw \/ arg.class_name \notin ClassToFunction)
                => ret = Object(arg.class_name, arg.props)
          /\ ConverterRan(ret) => (~arg.raw /\ arg.class_name \in ClassToFunction)
    /\ (op = "read_normal_mcos" /\ raw_data /\ ret.kind = "object")
          => ~ConverterRan(ret) /\ ~ConverterRan(ret.Props)

\* convert_to_object was called with raw_data true on a datetime and returned
\* the pair with the props as given
C7_Witness ==
    /\ op = "convert_to_object"
    /\ arg.raw
    /\ arg.class_name = S_datetime
    /\ ret = Object(S_datetime, arg.props)

\* a struct whose EnumerationInstanceTag is 0xDD000000
IsEnumerationInstance(m) ==
    /\ m.kind = "struct"
    /\ \E j \in DOMAIN m.names :
          /\ m.names[j] = S_EnumerationInstanceTag
          /\ m.data # <<>>
          /\ m.data[1][j].kind = "u32"
          /\ m.data[1][j].data = <<MAGIC>>

\* C8: read_mcos_object returns the metadata unchanged unless the type system
\* is MCOS and the metadata is a struct whose EnumerationInstanceTag is
\* 0xDD000000 or a uint32 reference sentinel.
C8_DispatchByShape ==
    (op = "read_mcos_object"
        /\ \/ arg.type_system # S_MCOS
           \/ (~IsEnumerationInstance(arg.metadata) /\ ~WellFormed(arg.metadata)))
       => ret = arg.metadata

\* C9: init_fields raises on every table-of-contents flag outside {2, 3, 4}
\* and builds no name table then; on the flags 2, 3 and 4 the name table is
\* read from byte 8 + 4 * num_offsets on, with 8 offsets for flag 4 and 6 for
\* the flags 2 and 3.
C9_TocFlagAndOffsets ==
    (op = "init_fields" /\ ssdata.has_mcos) =>
        IF U32At(ssdata.metadata, byte_order, 0) \notin {2, 3, 4}
        THEN /\ pc = "failed"
             /\ ret.kind = "error"
             /\ mcos_names = None
        ELSE /\ pc = "ready"
             /\ mcos_names.items = StdNames
             /\ mcos_names.items =
                   SplitNames(
                       Slice(ssdata.metadata,
                             8 + 4 * (IF U32At(ssdata.metadata, byte_order, 0) = 4
                                      THEN 8 ELSE 6),
                             U32At(ssdata.metadata, byte_order, 8)),
                       <<>>)

\* a FileWrapper of version 2, with its names behind 6 offsets, was read
C9_Witness ==
    /\ op = "init_fields"
    /\ ssdata.has_mcos
    /\ U32At(ssdata.metadata, byte_order, 0) = 2
    /\ pc = "ready"
    /\ mcos_names.items = StdNames

\* the entries <<field_name_idx, field_kind, field_value>> of the property
\* block extract_fields was called on
BlockOf(a) == IF a.type1_id = 0 THEN StdType2[a.type2_id] ELSE StdType1[a.type1_id]

\* the call names exactly one block
OneBlock(a) == (a.type1_id = 0) # (a.type2_id = 0)

\* the reference walker applied to property_values[field_value]
Walked(field_value) ==
    FindObjectReference(Decoder, [vals |-> StdVals, defs |-> StdDefs],
                        StdVals[field_value + 1], MaxDepth).v

\* C10: extract_fields sets the property names[field_name_idx - 1] to the
\* walker applied to property_values[field_value] when field_kind is 1 and to
\* the boolean field_value # 0 when field_kind is 2, and raises without
\* returning a property map when field_kind is anything else.
C10_FieldKinds ==
    (op = "extract_fields" /\ OneBlock(arg)) =>
        /\ (\E i \in DOMAIN BlockOf(arg) : BlockOf(arg)[i][2] \notin {1, 2})
              => ret.kind = "error"
        /\ ret.kind = "dict" =>
              \A i \in DOMAIN BlockOf(arg) :
                 /\ StdNames[BlockOf(arg)[i][1]] \in DOMAIN ret.map
                 /\ ret.map[StdNames[BlockOf(arg)[i][1]]] =
                       IF BlockOf(arg)[i][2] = 1
                       THEN Walked(BlockOf(arg)[i][3])
                       ELSE Bool(BlockOf(arg)[i][3] # 0)

\* block 9, with a boolean a and a c that holds a cell, was extracted
C10_Witness ==
    /\ op = "extract_fields"
    /\ arg.type1_id = 0
    /\ arg.type2_id = 9
    /\ ret.kind = "dict"
    /\ ret.map[S_a] = Bool(TRUE)
    /\ ret.map[S_c] = Walked(8)
    /\ ret.map[S_c].kind = "cell"

-----------------------------------------------------------------------------
(* The region a property block is read from.                                *)

\* the keys extract_handles adds to a property map
HandleKeys == {S_Handle_ \o DecStr(i) : i \in 1..Len(StdObjects)}

\* the property map without the handle entries
OwnProps(m) == [k \in (DOMAIN m) \ HandleKeys |-> m[k]]

\* the property map a block of entries <<field_name_idx, field_kind,
\* field_value>> stands for
BlockMap(block) ==
    [k \in {StdNames[block[i][1]] : i \in DOMAIN block} |->
        LET i == CHOOSE j \in DOMAIN block :
                    /\ StdNames[block[j][1]] = k
                    /\ \A l \in DOMAIN block : StdNames[block[l][1]] = k => l <= j
        IN  IF block[i][2] = 1 THEN Walked(block[i][3]) ELSE Bool(block[i][3] # 0)]

\* every entry of the block has a known field kind
KnownKinds(block) == \A i \in DOMAIN block : block[i][2] \in {1, 2}

\* C11 as stated: extract_fields reads the type-1 block type1_id of region R2
\* whenever type1_id is non-zero, whatever type2_id is.
C11_Type1WheneverNonZero ==
    (op = "extract_fields" /\ arg.type1_id # 0) =>
        /\ ret.kind = "dict"
        /\ OwnProps(ret.map) = BlockMap(StdType1[arg.type1_id])

\* C11: extract_fields reads the type-1 block type1_id of region R2 when
\* type1_id is non-zero and type2_id is zero, the type-2 block type2_id of
\* region R4 when type1_id is zero and type2_id is non-zero, and raises
\* ValueError when both ids or neither id is non-zero; the earlier reader
\* chooses the same region and block id when exactly one id is non-zero and
\* no region otherwise.
C11_RegionByExactlyOneId ==
    op = "extract_fields" =>
        /\ (arg.type1_id # 0 /\ arg.type2_id = 0) =>
              /\ LegacyObjTypeRegion(arg.type1_id, arg.type2_id) = <<arg.type1_id, 12>>
              /\ KnownKinds(StdType1[arg.type1_id]) =>
                    /\ ret.kind = "dict"
                    /\ OwnProps(ret.map) = BlockMap(StdType1[arg.type1_id])
        /\ (arg.type1_id = 0 /\ arg.type2_id # 0) =>
              /\ LegacyObjTypeRegion(arg.type1_id, arg.type2_id) = <<arg.type2_id, 20>>
              /\ KnownKinds(StdType2[arg.type2_id]) =>
                    /\ ret.kind = "dict"
                    /\ OwnProps(ret.map) = BlockMap(StdType2[arg.type2_id])
        /\ ~OneBlock(arg) =>
              /\ LegacyObjTypeRegion(arg.type1_id, arg.type2_id) = <<0, 0>>
              /\ ret = Error("ValueError", "Could not determine object type")

\* the type-1 block 1, which has the one property a, was extracted
C11_Witness ==
    /\ op = "extract_fields"
    /\ arg.type1_id = 1
    /\ arg.type2_id = 0
    /\ ret.kind = "dict"
    /\ DOMAIN OwnProps(ret.map) = {S_a}
    /\ ret.map[S_a] = Scalar(1)

-----------------------------------------------------------------------------
(* Block skipping, checked under SpecIds.                                   *)

\* the entries of the block whose count is at byte off
BlockAt(e, off, nbytes) ==
    IF off < 0 \/ ~CanRead(e.md, off, 1) THEN Error("ValueError", "frombuffer")
    ELSE IF IsBig(U32At(e.md, e.order, off))
            \/ ~CanRead(e.md, off + 4, U32At(e.md, e.order, off) * (nbytes \div 4))
    THEN Error("ValueError", "frombuffer")
    ELSE [kind |-> "ids",
          rows |-> [i \in 1..U32At(e.md, e.order, off) |->
                       U32sAt(e.md, e.order, off + 4 + (i - 1) * nbytes, nbytes \div 4)]]

\* the offset of block k when 8 bytes are skipped at the region start and
\* each of the k - 1 blocks before it takes 4 + nblocks * nbytes bytes
\* rounded up to a multiple of 8; -1 outside the buffer
RECURSIVE SkipEightThenBlocks(_, _, _, _)
SkipEightThenBlocks(e, hdr, k, nbytes) ==
    IF k = 1 THEN (IF RegionOffset(e, hdr) < 0 THEN -1 ELSE RegionOffset(e, hdr) + 8)
    ELSE LET off == SkipEightThenBlocks(e, hdr, k - 1, nbytes)
         IN  IF off < 0 \/ ~CanRead(e.md, off, 1) \/ IsBig(U32At(e.md, e.order, off))
                \/ U32At(e.md, e.order, off) > Len(e.md)
             THEN -1
             ELSE off + 8 * ((4 + U32At(e.md, e.order, off) * nbytes + 7) \div 8)

\* C12: for every block id k >= 1, get_ids returns the entries of the block
\* found by skipping 8 bytes at the region start and then k - 1 blocks of
\* 4 + nblocks * entry_size bytes rounded up to a multiple of 8, and its
\* block skipping arrives at the byte offset that get_num_fields and
\* _get_handle_pos of the earlier reader arrive at.
C12_SameBlockOffset ==
    (op = "get_ids" /\ arg.id >= 1) =>
        /\ ret = BlockAt(Decoder, SkipEightThenBlocks(Decoder, arg.hdr, arg.id, arg.nbytes),
                         arg.nbytes)
        /\ SkipBlocks(Decoder, arg.id, RegionOffset(Decoder, arg.hdr), arg.nbytes)
              = LegacyBlockOffset(Decoder, arg.hdr, arg.id, arg.nbytes)

\* the same, on the blobs whose region starts with a zero word
C12_SameBlockOffsetWhenZero ==
    (/\ op = "get_ids"
     /\ arg.id >= 1
     /\ U32At(Decoder.md, Decoder.order, RegionOffset(Decoder, arg.hdr)) = 0) =>
        /\ ret = BlockAt(Decoder, SkipEightThenBlocks(Decoder, arg.hdr, arg.id, arg.nbytes),
                         arg.nbytes)
        /\ SkipBlocks(Decoder, arg.id, RegionOffset(Decoder, arg.hdr), arg.nbytes)
              = LegacyBlockOffset(Decoder, arg.hdr, arg.id, arg.nbytes)

-----------------------------------------------------------------------------
(* Handle attachments.                                                      *)

\* the tables as init_fields leaves them
StdTables == [vals |-> StdVals, defs |-> StdDefs]

\* the first object whose descriptor carries the type-2 id, 0 when there is
\* none
OwnerOf(type2_id) ==
    IF \E i \in DOMAIN StdObjects : StdObjects[i][3] = type2_id
    THEN CHOOSE i \in DOMAIN StdObjects :
            /\ StdObjects[i][3] = type2_id
            /\ \A j \in DOMAIN StdObjects : StdObjects[j][3] = type2_id => i <= j
    ELSE 0

\* the object of a type-2 id read as a 1 x 1 object array
HandleObject(type2_id) ==
    ReadObjectArrays(Decoder, StdTables, <<OwnerOf(type2_id)>>,
                     StdObjects[OwnerOf(type2_id)][1], <<1, 1>>, MaxDepth).v

\* the handle block of a dependency id
HandleBlock(dep_id) == StdHandles[dep_id]

\* the entries the handle block of dep_id stands for: _Handle_i is the object
\* of the i-th type-2 id
HandleMap(dep_id) ==
    [k \in {S_Handle_ \o DecStr(i) : i \in DOMAIN HandleBlock(dep_id)} |->
        HandleObject(HandleBlock(dep_id)[
            CHOOSE i \in DOMAIN HandleBlock(dep_id) : k = S_Handle_ \o DecStr(i)][1])]

\* every type-2 id of the block belongs to an object
AllOwned(dep_id) ==
    \A i \in DOMAIN HandleBlock(dep_id) : OwnerOf(HandleBlock(dep_id)[i][1]) # 0

\* C13: extract_handles returns None when the handle block of dep_id is
\* empty and otherwise one entry per type-2 id of the block, in block order,
\* under the keys _Handle_1, _Handle_2, ..., each the object of that id read
\* with dims [1, 1]; the property map extract_fields returns holds these
\* entries over the properties of the object's block.
C13_HandlesByBlockOrder ==
    /\ (op = "extract_handles" /\ arg.dep_id \in DOMAIN StdHandles) =>
          /\ HandleBlock(arg.dep_id) = <<>> => ret = None
          /\ (HandleBlock(arg.dep_id) # <<>> /\ AllOwned(arg.dep_id)) =>
                ret = Dict(HandleMap(arg.dep_id))
    /\ (op = "extract_fields" /\ ret.kind = "dict") =>
          /\ [k \in (DOMAIN ret.map) \cap HandleKeys |-> ret.map[k]] = HandleMap(arg.dep_id)
          /\ OwnProps(ret.map) =
                [k \in (DOMAIN BlockMap(BlockOf(arg))) \ HandleKeys |-> BlockMap(BlockOf(arg))[k]]

\* the block of two handles was read: _Handle_1 is object 2, which holds a
\* handle itself, and _Handle_2 is object 1
C13_Witness ==
    /\ op = "extract_handles"
    /\ arg.dep_id = Len(StdObjects) + 1
    /\ HandleBlock(arg.dep_id) = << <<2>>, <<1>> >>
    /\ ret.kind = "dict"
    /\ DOMAIN ret.map = {S_Handle_ \o DecStr(1), S_Handle_ \o DecStr(2)}
    /\ ret.map[S_Handle_ \o DecStr(1)] = HandleObject(2)
    /\ ret.map[S_Handle_ \o DecStr(2)] = HandleObject(1)
    /\ HandleObject(1) # HandleObject(2)

\* a property map with a handle entry over the properties of the block
C13_WitnessOverlay ==
    /\ op = "extract_fields"
    /\ arg.dep_id = 2
    /\ ret.kind = "dict"
    /\ S_a \in DOMAIN ret.map
    /\ ret.map[S_Handle_ \o DecStr(1)] = HandleObject(1)

\* the object table as get_handle_class_instance reads it: the entries of
\* region R3 from its start, so that entry 0 is the 24 zero bytes and entry i
\* the descriptor of object i; <<class_id, type2_id>> of each
ObjectTable ==
    [i \in 0..Len(StdObjects) |->
        IF i = 0 THEN <<0, 0>> ELSE <<StdObjects[i][1], StdObjects[i][3]>>]

\* the entries that carry the type-2 id
Matches(type2_id) == {i \in DOMAIN ObjectTable : ObjectTable[i][2] = type2_id}

\* the error of a handle id that no entry carries
NotFound == Error("ValueError", "Handle class instance not found")

\* C14: get_handle_class_instance returns the class id and the index of the
\* first entry of the object table whose type-2 id equals the requested handle
\* id and raises when no entry matches; extract_handles then raises the same
\* error and returns no handle map, whatever handles came before in the block.
C14_FirstMatchOrAbort ==
    /\ op = "get_handle_class_instance" =>
          /\ Matches(arg.type2_id) = {} => ret = NotFound
          /\ Matches(arg.type2_id) # {} =>
                \E i \in Matches(arg.type2_id) :
                   /\ \A j \in Matches(arg.type2_id) : i <= j
                   /\ ret = Words(<<ObjectTable[i][1], i>>)
    /\ (op = "extract_handles" /\ arg.dep_id \in DOMAIN StdHandles
                               /\ ~AllOwned(arg.dep_id)) =>
          ret = NotFound

\* the handle id 1, which objects 1 and 12 carry, gave object 1 of class 1
C14_Witness ==
    /\ op = "get_handle_class_instance"
    /\ arg.type2_id = 1
    /\ Matches(arg.type2_id) = {1, Len(StdObjects)}
    /\ ret = Words(<<1, 1>>)

\* the block whose second handle id no object carries was read, and the
\* call raised although the first handle resolves
C14_WitnessAbort ==
    /\ op = "extract_handles"
    /\ arg.dep_id = Len(StdObjects) + 2
    /\ OwnerOf(HandleBlock(arg.dep_id)[1][1]) = 1
    /\ OwnerOf(HandleBlock(arg.dep_id)[2][1]) = 0
    /\ ret = NotFound

-----------------------------------------------------------------------------
(* Enumeration instances.                                                   *)

\* metadata[0, 0][name] of the call
EnumArg(name) == EnumField(arg.metadata, name)

\* the property map that the reference Values[index] resolves to
ResolvedValue(index) ==
    ReadNormalMcos(Decoder, StdTables, EnumArg(S_Values).data[index + 1], MaxDepth).v.Props.data[1]

\* C15: read_mcos_enumeration returns a value tagged EnumerationInstance
\* whose _ValueNames has the shape of ValueIndices and whose _Values is empty
\* when Values is empty and otherwise has the shape of ValueIndices, the
\* element at each position being the resolution of Values[ValueIndices at
\* that position].
C15_EnumerationShapes ==
    op = "read_mcos_enumeration" =>
        /\ ret.kind = "enum"
        /\ ret.Tag = "EnumerationInstance"
        /\ ret.ValueNames.shape = EnumArg(S_ValueIndices).shape
        /\ Size(EnumArg(S_Values)) = 0 => Size(ret.Values) = 0
        /\ Size(EnumArg(S_Values)) # 0 =>
              /\ ret.Values.shape = EnumArg(S_ValueIndices).shape
              /\ \A c \in DOMAIN ret.Values.data :
                    ret.Values.data[c] = ResolvedValue(EnumArg(S_ValueIndices).data[c])

\* the same for a decoder with raw_data set, on ValueIndices with at most one
\* dimension larger than 1 or walked in column-major order
C15_EnumerationShapesRaw ==
    (/\ op = "read_mcos_enumeration"
     /\ raw_data
     /\ (arg.nditer = "F" \/ 1 \in Range(EnumArg(S_ValueIndices).shape))) =>
        /\ ret.kind = "enum"
        /\ ret.Tag = "EnumerationInstance"
        /\ ret.ValueNames.shape = EnumArg(S_ValueIndices).shape
        /\ Size(EnumArg(S_Values)) = 0 => Size(ret.Values) = 0
        /\ Size(EnumArg(S_Values)) # 0 =>
              /\ ret.Values.shape = EnumArg(S_ValueIndices).shape
              /\ \A c \in DOMAIN ret.Values.data :
                    ret.Values.data[c] = ResolvedValue(EnumArg(S_ValueIndices).data[c])

\* with raw_data set and a row-major walk, a 2 x 2 instance is returned whose
\* _Values has the right shape and, in row 0, column 1, the value that
\* belongs to row 1, column 0
C15_RowMajorWalk ==
    /\ op = "read_mcos_enumeration"
    /\ raw_data
    /\ arg.nditer = "C"
    /\ EnumArg(S_ValueIndices).shape = <<2, 2>>
    /\ ret.kind = "enum"
    /\ ret.Values.shape = <<2, 2>>
    /\ ret.Values.data[2] # ResolvedValue(EnumArg(S_ValueIndices).data[2])
    /\ ret.Values.data[2] = ResolvedValue(EnumArg(S_ValueIndices).data[3])

-----------------------------------------------------------------------------
(* The loader, checked under SpecLoad.                                      *)

\* the variable map has a subsystem
HasWorkspace == S_function_workspace \in Range(VarNames(arg.mdict))

\* C16: when the primitive reader's variable map has no entry
\* __function_workspace__, load_from_mat returns that map unchanged and
\* builds no decoder.
C16_NoSubsystemUnchanged ==
    (op = "load_from_mat" /\ ~HasWorkspace) =>
        /\ ret.kind = "dict"
        /\ DOMAIN ret.map = Range(VarNames(arg.mdict))
        /\ \A i \in DOMAIN arg.mdict : ret.map[arg.mdict[i][1]] = arg.mdict[i][2]
        /\ fwrap_metadata = None

\* a file without a subsystem whose variable b is an opaque placeholder was
\* loaded
C16_Witness ==
    /\ op = "load_from_mat"
    /\ ~HasWorkspace
    /\ Len(arg.mdict) = 2
    /\ ret.kind = "dict"
    /\ ret.map[S_a] = Scalar(1)
    /\ ret.map[S_b] = Opaque(Sentinel(<<1, 1>>, <<1>>, 1))

\* the object ids a reference sentinel lists
SentinelIds(metadata) ==
    Col0(metadata, 2 + NatOf(At0(metadata, 1)), metadata.shape[1] - 1)

\* the resolved object of an opaque placeholder: the array, of the shape the
\* sentinel gives, of the objects the sentinel lists
ResolvedPlaceholder(data) ==
    Cell(Col0(data.object_metadata, 2, 2 + NatOf(At0(data.object_metadata, 1))),
         [k \in DOMAIN SentinelIds(data.object_metadata) |->
             [kind |-> "nested", object_id |-> SentinelIds(data.object_metadata)[k]]])

\* the variables of the map without the subsystem
LoadedVars == Popped(arg.mdict, S_function_workspace)

\* C17: when a subsystem is present, load_from_mat returns a map with the
\* names of the variable map except __function_workspace__, in which every
\* variable that was an opaque placeholder is its resolved object and every
\* other variable has the value it had.
C17_OpaqueReplaced ==
    (op = "load_from_mat" /\ HasWorkspace) =>
        /\ ret.kind = "dict"
        /\ DOMAIN ret.map = Range(VarNames(LoadedVars))
        /\ \A i \in DOMAIN LoadedVars :
              ret.map[LoadedVars[i][1]] =
                 IF LoadedVars[i][2].kind = "opaque"
                 THEN ResolvedPlaceholder(LoadedVars[i][2])
                 ELSE LoadedVars[i][2]

\* the object ids of the sentinel are consecutive
Consecutive(ids) == \A k \in 1..(Len(ids) - 1) : ids[k + 1] = ids[k] + 1

\* the same for the files whose opaque placeholders are reference sentinels
\* of consecutive object ids
C17_OpaqueReplacedConsecutive ==
    (/\ op = "load_from_mat"
     /\ HasWorkspace
     /\ \A i \in DOMAIN LoadedVars :
           LoadedVars[i][2].kind = "opaque" =>
              /\ LoadedVars[i][2].object_metadata.kind = "u32"
              /\ At0(LoadedVars[i][2].object_metadata, 0) = MAGIC
              /\ Consecutive(SentinelIds(LoadedVars[i][2].object_metadata))) =>
        /\ ret.kind = "dict"
        /\ DOMAIN ret.map = Range(VarNames(LoadedVars))
        /\ \A i \in DOMAIN LoadedVars :
              ret.map[LoadedVars[i][1]] =
                 IF LoadedVars[i][2].kind = "opaque"
                 THEN ResolvedPlaceholder(LoadedVars[i][2])
                 ELSE LoadedVars[i][2]

\* a file whose variable a is the placeholder of an enumeration instance was
\* loaded, and the load raised
C17_EnumerationRaises ==
    /\ op = "load_from_mat"
    /\ HasWorkspace
    /\ Len(LoadedVars) = 1
    /\ LoadedVars[1][2] = Opaque(EnumStruct(MAGIC))
    /\ ret = Error("TypeError", "EnumerationInstances is not supported currently")

-----------------------------------------------------------------------------
(* The walker on containers.                                                *)

\* what the resolver returns for a reference
Resolved(item) == ReadMcosObject(Decoder, StdTables, item, S_MCOS, MaxDepth).v

\* out is in with the references replaced by the resolver's output: a
\* reference became the resolver's output, a cell or struct array kept its
\* shape and field names and the same holds of each element and field, and
\* any other value is unchanged
RECURSIVE Preserved(_, _)
Preserved(in, out) ==
    IF ~IsNdarray(in) THEN out = in
    ELSE IF CheckObjectReference(in) THEN out = Resolved(in)
    ELSE IF in.kind = "cell"
    THEN /\ out.kind = "cell"
         /\ out.shape = in.shape
         /\ DOMAIN out.data = DOMAIN in.data
         /\ \A i \in DOMAIN in.data : Preserved(in.data[i], out.data[i])
    ELSE IF in.kind = "struct"
    THEN /\ out.kind = "struct"
         /\ out.shape = in.shape
         /\ out.names = in.names
         /\ DOMAIN out.data = DOMAIN in.data
         /\ \A i \in DOMAIN in.data : \A j \in DOMAIN in.names :
               Preserved(in.data[i][j], out.data[i][j])
    ELSE out = in

\* C18: for a cell array or struct array, the value find_object_reference
\* returns has the shape and the field names of the input; every element or
\* field that is a reference is the resolver's output, every element or field
\* that is a cell or struct array is preserved in the same way, and every
\* other element or field has the value it had.
C18_ContainersPreserved ==
    (/\ op = "find_object_reference"
     /\ arg.kind \in {"cell", "struct"}
     /\ ~CheckObjectReference(arg)
     /\ ~IsError(ret)) =>
        Preserved(arg, ret)

\* a 1 x 2 cell of a reference and a double was walked: the reference became
\* an object of class K and the double was kept
C18_Witness ==
    /\ op = "find_object_reference"
    /\ arg = Cell(<<1, 2>>, <<Sentinel(<<1, 1>>, <<1>>, 1), Scalar(1)>>)
    /\ ret.kind = "cell"
    /\ ret.shape = <<1, 2>>
    /\ ret.data[1] = Resolved(arg.data[1])
    /\ ret.data[1].kind \in {"object", "converted"}
    /\ ret.data[2] = Scalar(1)

-----------------------------------------------------------------------------
(* The decoder's tables.                                                    *)

\* C19: after initialisation no resolution changes the property-value array,
\* the default-property table, the name table or the metadata bytes.
C19_TablesImmutable ==
    [][pc = "ready" =>
          /\ fwrap_vals' = fwrap_vals
          /\ fwrap_defaults' = fwrap_defaults
          /\ mcos_names' = mcos_names
          /\ fwrap_metadata' = fwrap_metadata]_vars

\* the name table and the metadata bytes are never changed, and the other
\* two tables are changed only in the elements of cell and struct arrays
C19_NamesAndMetadataImmutable ==
    [][pc = "ready" =>
          /\ mcos_names' = mcos_names
          /\ fwrap_metadata' = fwrap_metadata
          /\ Len(fwrap_vals'.items) = Len(fwrap_vals.items)
          /\ Len(fwrap_defaults'.items) = Len(fwrap_defaults.items)
          /\ \A i \in DOMAIN fwrap_vals.items :
                fwrap_vals.items[i].kind \notin {"cell", "struct"} =>
                   fwrap_vals'.items[i] = fwrap_vals.items[i]]_vars

\* object 9 was read: its property c is property value 8, a cell that held a
\* reference and now holds the object
C19_CellOverwritten ==
    /\ op = "read_normal_mcos"
    /\ arg = Sentinel(<<1, 1>>, <<9>>, 2)
    /\ ~IsError(ret)
    /\ ssdata.vals[9] # StdVals[9]
    /\ StdVals[9].data[1] = Sentinel(<<1, 1>>, <<3>>, 1)
    /\ fwrap_vals.items[9].shape = StdVals[9].shape
    /\ fwrap_vals.items[9].data[1].kind \in {"object", "converted"}
    /\ fwrap_vals.items[9].data[2] = StdVals[9].data[2]

-----------------------------------------------------------------------------
(* Repeated resolution, checked under SpecShared.                           *)

\* C20: two resolutions of references with equal object ids, class id and
\* dims on one decoder, in any order and with any resolutions in between,
\* return equal results: the same class name and equal property content.
C20_SameReferenceSameResult ==
    op = "resolve" =>
        \A i \in DOMAIN arg.items : \A j \in DOMAIN arg.items :
            (arg.items[i] = arg.items[j] /\ ~IsError(ret.items[i]) /\ ~IsError(ret.items[j])) =>
                ret.items[i] = ret.items[j]

\* object 9 was resolved, then object 7, then object 9 again; the first
\* resolution had put an object into property value 8 and into the defaults
\* of class pk.H, and the third returned what the first returned
C20_Witness ==
    /\ op = "resolve"
    /\ raw_data
    /\ arg.items = <<Sentinel(<<1, 1>>, <<9>>, 2), Sentinel(<<1, 1>>, <<7>>, 1),
                     Sentinel(<<1, 1>>, <<9>>, 2)>>
    /\ ret.items[1].kind = "object"
    /\ ret.items[1].Class = S_pk \o <<46>> \o S_H
    /\ ret.items[3] = ret.items[1]
    /\ ret.items[2] # ret.items[1]
    /\ fwrap_vals.items[9] # StdVals[9]
    /\ fwrap_defaults.items[3] # SharedDefs[3]

-----------------------------------------------------------------------------
(* Independence of the results, checked under SpecShared.                   *)

\* C21: the results of separate resolutions share no mutable property map
\* and no mutable nested resolved object: a write into one result changes no
\* other result.
C21_ResultsIndependent ==
    op = "modify" =>
        \A j \in DOMAIN ret.items :
            j # arg.target => ret.items[j] = arg.before[j]

\* the property maps themselves are built anew by every resolution: a result
\* that holds none of the table's cells is left as it was by the write
C21_FreshMapsIndependent ==
    op = "modify" =>
        \A j \in DOMAIN ret.items :
            (/\ arg.refs[j].kind = "u32"
             /\ \A c \in 1..(Len(arg.refs[j].data) - arg.refs[j].data[2] - 3) :
                   arg.field_value \notin
                      Range(HeldArrays(Decoder, Tables,
                                       arg.refs[j].data[2 + arg.refs[j].data[2] + c])))
               => ret.items[j] = arg.before[j]

\* object 9 was resolved twice and the object nested in the cell of the first
\* result's property c was written to: the second result shows the write
C21_SharedNestedObject ==
    /\ op = "modify"
    /\ raw_data
    /\ arg.refs = <<Sentinel(<<1, 1>>, <<9>>, 2), Sentinel(<<1, 1>>, <<9>>, 2)>>
    /\ arg.target = 1
    /\ arg.before[2].Props.data[1].map[S_c].data[1].Class = S_K
    /\ ret.items[2].Props.data[1].map[S_c].data[1].Class = S_java

-----------------------------------------------------------------------------
(* Termination of the resolver, checked under SpecCycle.                    *)

\* the call used up the nesting of read_object_arrays calls it was allowed
DepthExhausted == IsError(ret) /\ ret.type = "RecursionError"

\* C22: resolving a reference does not recurse without bound, also when a
\* class default references an object of the same class or a property or a
\* handle block of an object leads back to the object: no resolution nests
\* its read_object_arrays calls down to the limit.
C22_RecursionBounded ==
    op = "find_object_reference" => ~DepthExhausted

\* on the subsystem without a cycle every resolution stays within the limit
C22_AcyclicBounded ==
    (op = "find_object_reference" /\ ssdata.cycle = "none") => ~DepthExhausted

\* each of the three cycles was run into: the resolution of an object on it
\* nested until the limit
C22_DefaultsCycleExhausts ==
    /\ op = "find_object_reference"
    /\ ssdata.cycle = "defaults"
    /\ arg = Sentinel(<<1, 1>>, <<1>>, 1)
    /\ DepthExhausted

C22_PropertyCycleExhausts ==
    /\ op = "find_object_reference"
    /\ ssdata.cycle = "property"
    /\ arg = Sentinel(<<1, 1>>, <<7>>, 1)
    /\ DepthExhausted

C22_HandleCycleExhausts ==
    /\ op = "find_object_reference"
    /\ ssdata.cycle = "handle"
    /\ arg = Sentinel(<<1, 1>>, <<2>>, 1)
    /\ DepthExhausted

-----------------------------------------------------------------------------
(* The string converter, checked under SpecString. *)

\* the element of the 2-D array a at column-major linear position k, from 0
ElementF(a, k) == a.data[(k % a.shape[1]) * a.shape[2] + (k \div a.shape[1]) + 1]

RECURSIVE SumFirst(_, _)
SumFirst(s, n) == IF n <= 0 THEN 0 ELSE s[n] + SumFirst(s, n - 1)

\* the units the header of the 1 x N payload data gives to string k, from 0:
\* char_counts[k] units after those of the strings before it, in the packed
\* data behind the header
PayloadUnits(data, order, k) ==
    LET row         == data.data
        ndims       == row[2][1]
        num_strings == ProdSeq([i \in 1..ndims |-> row[2 + i][1]])
        char_counts == [i \in 1..num_strings |-> row[2 + ndims + i][1]]
        offset      == 2 + ndims + num_strings
        packed      == Flatten([i \in 1..(Len(row) - offset) |->
                                   UnitsOfWord(row[offset + i], order)])
    IN  SubSeq(packed, SumFirst(char_counts, k) + 1, SumFirst(char_counts, k + 1))

\* the call decoded a payload laid out as {version, ndims, dims,
\* char_counts, packed units}
DecodedPayload == op = "toString" /\ arg.version # 0

\* what the layout promises of the result
DecodesAsLaidOut ==
    /\ ret.kind = "strs"
    /\ ret.shape = arg.dims
    /\ \A k \in 0..(Len(arg.strs) - 1) :
          Utf16Encode(ElementF(ret, k)) = PayloadUnits(arg.data, byte_order, k)
    /\ ret = MatStringToString(
                U64Arr(arg.data.shape, [arg.data.data EXCEPT ![1] = W(1)]), byte_order)

\* C23: for a payload {version, ndims, dims, char_counts} followed by the
\* packed units, toString returns an array of shape dims whose element at
\* column-major position k is made of exactly the char_counts[k] units that
\* follow those of the strings before it, whatever the version.
C23_ToStringDecodes == DecodedPayload => DecodesAsLaidOut

\* C23, supporting: the same holds of every payload none of whose strings
\* ends in a NUL.
C23_DecodesWithoutTrailingNul ==
    (DecodedPayload /\ \A k \in DOMAIN arg.strs : StripNuls(arg.strs[k]) = arg.strs[k])
        => DecodesAsLaidOut

\* C23, supporting: a string of the payload that ends in a NUL comes back
\* without it.
C23_TrailingNulDropped ==
    /\ DecodedPayload
    /\ arg.dims = <<2, 2>>
    /\ arg.strs[3] = <<98, 0>>
    /\ ret.kind = "strs"
    /\ ElementF(ret, 2) = <<98>>

\* C23, supporting: a 2 x 2 payload of version 2 with four different
\* strings without NUL at the end, decoded from a big-endian file.
C23_ColumnMajorDecoded ==
    /\ DecodedPayload
    /\ byte_order = ">u4"
    /\ arg.version = 2
    /\ arg.dims = <<2, 2>>
    /\ arg.strs = << <<97>>, <<55357, 56832>>, <<>>, <<97>> >>
    /\ ret = StrArr(<<2, 2>>, << <<97>>, <<>>, <<128512>>, <<97>> >>)

\* the payload np2string wrote, its words laid out as one row
AsRow(data) == U64Arr(<<1, Len(data.data)>>, data.data)

\* C24: decoding, little-endian, the payload np2string produced for an array
\* of strings yields an array of the same shape with the original strings
\* at the original positions.
C24_RoundTrip == (op = "read_back") => ret = arg.arr

\* C24, supporting: np2string returns its words as a column, and toString,
\* which reads data[0, 1], raises IndexError on every such payload.
C24_ReadBackRaises ==
    (op = "read_back") =>
        /\ arg.data.shape = <<Len(arg.data.data), 1>>
        /\ Len(arg.data.data) >= 4
        /\ ret = Error("IndexError", "data[0, 1]")

\* C24, supporting: the same words as a row decode to the original array
\* when it has one row or one column and no character outside the basic
\* plane behind a count.
C24_RowPayloadOfVector ==
    (/\ op = "read_back"
     /\ 1 \in {arg.arr.shape[1], arg.arr.shape[2]}
     /\ \A i \in DOMAIN arg.arr.data : arg.arr.data[i] # <<128512>>)
        => MatStringToString(AsRow(arg.data), "<u4") = arg.arr

\* C24, supporting: a 2 x 2 array is written in row-major order and read
\* in column-major order, so that even the row of words gives the transpose.
C24_RowPayloadTransposed ==
    /\ op = "read_back"
    /\ arg.arr = StrArr(<<2, 2>>, << <<97>>, <<97, 98>>, <<>>, <<97>> >>)
    /\ MatStringToString(AsRow(arg.data), "<u4")
          = StrArr(<<2, 2>>, << <<97>>, <<>>, <<97, 98>>, <<97>> >>)

\* C24, supporting: the count written for a character outside the basic
\* plane is 1 although it takes two units, so that the row of words decodes
\* to a surrogate alone and raises.
C24_RowPayloadCountsCodePoints ==
    /\ op = "read_back"
    /\ arg.arr = StrArr(<<1, 1>>, << <<128512>> >>)
    /\ arg.data.data[5] = W(1)
    /\ arg.data.data[6] = <<55357, 56832, 0, 0>>
    /\ MatStringToString(AsRow(arg.data), "<u4") = Error("UnicodeDecodeError", "utf-16")

-----------------------------------------------------------------------------
(* Class names, checked under Spec. *)

\* the name the subsystem was written with for class c
WrittenClassName(c) ==
    IF StdClasses[c][1] # 0
    THEN StdNames[StdClasses[c][1]] \o <<46>> \o StdNames[StdClasses[c][2]]
    ELSE StdNames[StdClasses[c][2]]

\* C25: the name table is the list of the NUL-delimited strings behind the
\* offsets; get_class_name(c) reads the c-th descriptor after the unused
\* leading entry of region R1 and returns the names at its 1-based indices;
\* a resolved object carries handle_name.class_name when the handle index is
\* non-zero and class_name alone when it is zero.
C25_ClassNameFromDescriptor ==
    /\ Ready =>
          /\ mcos_names.items = StdNames
          /\ \A c \in DOMAIN StdClasses :
                GetClassName(Decoder, c) =
                   [kind |-> "names",
                    handle_name |-> IF StdClasses[c][1] # 0
                                    THEN Str(StdNames[StdClasses[c][1]]) ELSE None,
                    class_name |-> StdNames[StdClasses[c][2]]]
    /\ (op = "read_normal_mcos" /\ ret.kind = "object") =>
          /\ RefClass(arg) \in DOMAIN StdClasses
          /\ ret.Class = WrittenClassName(RefClass(arg))

\* C25, witness: object 9, of class 2 with handle name index 6 and class
\* name index 5, resolves to an object of class pk.H.
C25_Witness ==
    /\ op = "read_normal_mcos"
    /\ arg = Sentinel(<<1, 1>>, <<9>>, 2)
    /\ StdClasses[2] = <<6, 5>>
    /\ ret.kind = "object"
    /\ ret.Class = S_pk \o <<46>> \o S_H

\* C25, witness: object 7, of class 1 without handle name, resolves to an
\* object of class K.
C25_WitnessNoHandle ==
    /\ op = "read_normal_mcos"
    /\ arg = Sentinel(<<1, 1>>, <<7>>, 1)
    /\ StdClasses[1][1] = 0
    /\ ret.kind = "object"
    /\ ret.Class = S_K

-----------------------------------------------------------------------------
(* Completeness of reference discovery, checked under Spec. *)

\* nothing reachable in v through cells, struct fields, the property maps
\* of resolved objects and converted values is an object reference
RECURSIVE NoRefs(_)
NoRefs(v) ==
    IF IsNdarray(v)
    THEN /\ ~CheckObjectReference(v)
         /\ v.kind = "cell" => \A i \in DOMAIN v.data : NoRefs(v.data[i])
         /\ v.kind = "struct" =>
               \A i \in DOMAIN v.data : \A j \in DOMAIN v.names : NoRefs(v.data[i][j])
    ELSE IF v.kind = "object" THEN NoRefs(v.Props)
    ELSE IF v.kind = "dict" THEN \A k \in DOMAIN v.map : NoRefs(v.map[k])
    ELSE IF v.kind = "converted" THEN NoRefs(v.of)
    ELSE TRUE

\* C26: in the value find_object_reference returns, nothing reachable
\* through cells and struct fields, at any depth and including the property
\* values and defaults of the objects resolved on the way, still satisfies
\* check_object_reference.
C26_NoReferenceLeft ==
    (op = "find_object_reference" /\ ~IsError(ret)) => NoRefs(ret)

\* C26, witness: a reference in a cell in a struct field is resolved.
C26_Witness ==
    /\ op = "find_object_reference"
    /\ arg = Struct(<<1, 1>>, <<S_a>>,
                    << <<Cell(<<1, 1>>, <<Sentinel(<<1, 1>>, <<3>>, 1)>>)>> >>)
    /\ ~NoRefs(arg)
    /\ ret.kind = "struct"
    /\ ret.data[1][1].kind = "cell"
    /\ ret.data[1][1].data[1].kind \in {"object", "converted"}
    /\ NoRefs(ret)

\* C26, witness: the reference in the cell that is property c of object 9 is
\* resolved inside the resolved object.
C26_WitnessProperty ==
    /\ op = "find_object_reference"
    /\ arg = Sentinel(<<1, 1>>, <<9>>, 2)
    /\ raw_data
    /\ ~NoRefs(StdVals[9])
    /\ ret.kind = "object"
    /\ ret.Props.data[1].map[S_c].kind = "cell"
    /\ ret.Props.data[1].map[S_c].data[1].kind = "object"
    /\ NoRefs(ret)

-----------------------------------------------------------------------------
(* The extent of a block lookup, checked under SpecIds. *)

\* the offset behind the last byte get_ids read for the call in arg: the
\* count of the selected block and its entries
ReadEnd ==
    SkipBlocks(Decoder, arg.id, RegionOffset(Decoder, arg.hdr), arg.nbytes)
       + 4 + Len(ret.rows) * arg.nbytes

\* the end of the region of the call: the start of the region that follows
RegionEnd == RegionOffset(Decoder, arg.hdr + 4)

\* the number of blocks the region of the call was written with
BlocksWritten ==
    IF arg.hdr = 12 THEN Len(StdType1)
    ELSE IF arg.hdr = 20 THEN Len(StdType2) ELSE Len(StdHandles)

\* C27: every byte get_ids reads for block id k of a property-block or
\* handle region lies before the end of the region; an id larger than the
\* number of blocks is not answered with data of the region that follows.
C27_LookupInsideRegion ==
    (op = "get_ids" /\ ~IsError(ret)) => ReadEnd <= RegionEnd

\* C27, supporting: the lookup of a block the region holds stays inside the
\* region when the region starts with its zero word.
C27_HeldBlockInsideRegion ==
    (/\ op = "get_ids"
     /\ ~IsError(ret)
     /\ arg.id <= BlocksWritten
     /\ U32At(fwrap_metadata.b, byte_order, RegionOffset(Decoder, arg.hdr)) = 0)
        => ReadEnd <= RegionEnd

\* C27, supporting: the id one past the last block of the first property
\* region is answered from the start of the object descriptors.
C27_AnsweredFromNextRegion ==
    /\ op = "get_ids"
    /\ arg.hdr = 12
    /\ arg.id = Len(StdType1) + 1
    /\ U32At(fwrap_metadata.b, byte_order, RegionOffset(Decoder, arg.hdr)) = 0
    /\ ret = [kind |-> "ids", rows |-> <<>>]
    /\ ReadEnd - 4 = RegionEnd

-----------------------------------------------------------------------------
(* Descriptors without a usable property block, checked under Spec. *)

\* the descriptor of object id has both property-block ids zero or both
\* non-zero
AmbiguousType(id) == (StdObjects[id][2] = 0) <=> (StdObjects[id][3] = 0)

CouldNotDetermine == Error("ValueError", "Could not determine object type")

\* the reference a resolution was called with
ResolvedRef == IF op = "read_mcos_object" THEN arg.metadata ELSE arg

\* C28: extract_fields raises 'Could not determine object type' whenever
\* type1_id and type2_id are both zero or both non-zero, producing no
\* property map, and the resolution of an object array holding such an
\* object returns nothing but that error.
C28_AmbiguousTypeRaises ==
    /\ (op = "extract_fields" /\ ((arg.type1_id = 0) <=> (arg.type2_id = 0))) =>
          ret = CouldNotDetermine
    /\ (/\ op \in {"read_mcos_object", "read_normal_mcos", "find_object_reference"}
        /\ op = "read_mcos_object" => arg.type_system = S_MCOS
        /\ ResolvedRef.kind = "u32"
        /\ WellFormed(ResolvedRef)
        /\ \A i \in DOMAIN RefIds(ResolvedRef) : RefIds(ResolvedRef)[i] \in DOMAIN StdObjects
        /\ \E i \in DOMAIN RefIds(ResolvedRef) : AmbiguousType(RefIds(ResolvedRef)[i])) =>
          ret = CouldNotDetermine

\* C28, witness: extract_fields called with both ids non-zero.
C28_Witness ==
    /\ op = "extract_fields"
    /\ arg.type1_id = 1
    /\ arg.type2_id = 2
    /\ ret = CouldNotDetermine

\* C28, witness: extract_fields called with both ids zero.
C28_WitnessBothZero ==
    /\ op = "extract_fields"
    /\ arg.type1_id = 0
    /\ arg.type2_id = 0
    /\ ret = CouldNotDetermine

\* C28, witness: the 1 x 2 array of object 1 and object 11, whose descriptor
\* has both ids zero, gives no result although object 1 resolves on its own.
C28_WitnessWholeArray ==
    /\ op = "read_mcos_object"
    /\ arg.type_system = S_MCOS
    /\ arg.metadata = Sentinel(<<1, 2>>, <<1, 11>>, 1)
    /\ ~AmbiguousType(1)
    /\ AmbiguousType(11)
    /\ ret = CouldNotDetermine

-----------------------------------------------------------------------------
(* References to empty object arrays, checked under SpecRef. *)

\* a uint32 column of at least six words that starts with the marker, has
\* ndims dims of which one is 0, no object id and a class id: its length is
\* 0 + ndims + 3
EmptyReference(a) ==
    /\ a.kind = "u32"
    /\ a.shape = <<Len(a.data), 1>>
    /\ Len(a.data) >= 6
    /\ a.data[1] = MAGIC
    /\ Len(a.data) = a.data[2] + 3
    /\ \E i \in 1..a.data[2] : a.data[2 + i] = 0
    /\ a.data[Len(a.data)] \in 1..MaxVal

C29_WitnessWalk ==
    /\ op = "find_object_reference"
    /\ arg = Column(<<MAGIC, 3, 1, 0, 2, 1>>)
    /\ EmptyReference(arg)
    /\ ret = arg

-----------------------------------------------------------------------------
(* Handle lookup against descriptor lookup, checked under Spec. *)

\* C30: when get_handle_class_instance(t) returns (class_id, object_id) for
\* a non-zero t, get_object_dependencies(object_id) returns a descriptor
\* with that class id and with type2_id t: the index counted over region R3
\* with its zero header is the 1-based object id.
C30_HandleAndDescriptorAgree ==
    (op = "get_handle_class_instance" /\ arg.type2_id # 0 /\ ~IsError(ret)) =>
        /\ ret.w[2] \in DOMAIN StdObjects
        /\ StdObjects[ret.w[2]][3] = arg.type2_id
        /\ ~IsError(GetObjectDependencies(Decoder, ret.w[2]))
        /\ GetObjectDependencies(Decoder, ret.w[2]).w[1] = ret.w[1]
        /\ GetObjectDependencies(Decoder, ret.w[2]).w[3] = arg.type2_id

\* C30, witness: type-2 id 9 is found at object 9 of class 2, and the
\* descriptor of object 9 names class 2 and type-2 id 9.
C30_Witness ==
    /\ op = "get_handle_class_instance"
    /\ arg.type2_id = 9
    /\ ret = Words(<<2, 9>>)
    /\ GetObjectDependencies(Decoder, 9) = Words(<<2, 0, 9, 9>>)

=============================================================================
